---- MODULE Spec2Model ----
(***************************************************************************)
(* Token verification chain of phase-2/backend/auth.py (verify_token).     *)
(*                                                                         *)
(* A credential is the bearer string, modelled as the sequence of its      *)
(* "."-separated parts (token.split(".")).  A part is either an opaque     *)
(* string (t = "raw") or the base64url encoding of a JWT header, of a JWT  *)
(* payload, or of a signature.  The PyJWT calls the handler makes          *)
(* (PyJWKClient.get_signing_key_from_jwt, jwt.decode) are modelled by      *)
(* what they do for the handler: the checks they run and the order in      *)
(* which they run them.                                                    *)
(***************************************************************************)
EXTENDS Integers, Sequences, FiniteSets, TLC

VARIABLES
    JWT_SECRET,   \* auth.py:26  shared secret from the environment ("" = unset)
    tzOffset,     \* offset of the server's local time zone from UTC, seconds
    jwkCache,     \* the JWK-set cache held by jwks_client (auth.py:32)
    remoteKeys,   \* key identifiers the remote JWKS endpoint serves now
    reachable,    \* whether the JWKS endpoint answers
    dbUp,         \* whether the session store answers
    sessions,     \* the rows of the Session table (models.py:39-45)
    now,          \* the UTC clock, seconds
    pc,           \* position of the verify_token call in flight
    token,        \* its credential
    attempted,    \* the verifier blocks it has entered, in order
    verdicts,     \* the outcome of each block entered, in order
    fetches,      \* outcomes of the key-set fetches it caused, in order
    lookups,      \* the keys it has queried the Session table with, in order
    log,          \* the records it has logged, in order
    result,       \* what it returned or raised
    prev,         \* the call before this one, of two calls in succession
    req,          \* the HTTP request a task route is serving
    resp,         \* the response built for it
    tasks,        \* the rows of the task table
    storeLog,     \* the task-table operations made for the request
    DATABASE_READY, \* phase 3: the tool server imported its database modules
    chat,         \* phase 3: the chat request being served
    tasks3,       \* phase 3: the rows of the task table
    nextId,       \* phase 3: the id the table gives its next row
    lastCall,     \* phase 3: the last tool call and what it returned
    store_tasks,  \* phase 1: TaskStore._tasks, the list of tasks (store.py:39)
    next_id,      \* phase 1: TaskStore._next_id (store.py:40)
    storeFile,    \* phase 1: what _save last wrote to the data file
    lastOp,       \* phase 1: the last TaskStore call and how it ended
    assignedIds,  \* phase 1: the ids create_task has given out, in order
    inflight,     \* the toggle requests being served side by side
    origin,       \* the task table when the first of them arrived
    other         \* a second verify_token call in flight beside the first

\* The state of the phase-1 console application's TaskStore.
phase1Vars == << store_tasks, next_id, storeFile, lastOp, assignedIds >>

\* The state that the phase-2 and phase-3 backends do not touch.
lateVars == << phase1Vars, inflight, origin, other >>

\* The state outside a single verify_token call and its collaborators.
appVars == << prev, req, resp, tasks, storeLog,
             DATABASE_READY, chat, tasks3, nextId, lastCall, lateVars >>

vars == << JWT_SECRET, tzOffset, jwkCache, remoteKeys, reachable, dbUp,
           sessions, now, pc, token, attempted, verdicts, fetches, lookups,
           log, result, appVars >>

envVars == << JWT_SECRET, tzOffset, remoteKeys, reachable, dbUp, sessions, now >>

-----------------------------------------------------------------------------
(* Bounds and configuration *)

\* number of clock ticks explored
MaxTick == 1

\* auth.py:54  leeway=60 of the JWKS decode
Leeway == 60

\* jwt.decode's default leeway, used by the HS256 decode (auth.py:64-70)
DefaultLeeway == 0

Start == 2 * Leeway

API_AUDIENCE == "aud-api"
BETTER_AUTH_URL == "iss-auth"

HTTP_401_UNAUTHORIZED == 401

-----------------------------------------------------------------------------
(* Credentials *)

Raw(v) == [t |-> "raw", v |-> v]
HdrPart(h) == [t |-> "hdr", h |-> h]
PlPart(c) == [t |-> "pl", c |-> c]
SigPart(by) == [t |-> "sig", by |-> by]

\* The algorithm each key of the key set is for.
KeyAlg(k) == IF k = "k2" THEN "RS256" ELSE "EdDSA"

Headers ==
    { [alg |-> "EdDSA", kid |-> "k1"],
      [alg |-> "RS256", kid |-> "k2"],
      [alg |-> "EdDSA", kid |-> "k3"],
      [alg |-> "ES256", kid |-> "k1"],
      [alg |-> "none", kid |-> "k1"],
      [alg |-> "HS256"] }

\* Who made the signature part: a key of the key set, the shared secret
\* "s1", or nobody ("bad": tampered, or made with some other key).
Signers == { "k1", "k2", "s1", "bad" }

BaseClaims(e) ==
    [sub |-> "u1", aud |-> API_AUDIENCE, iss |-> BETTER_AUTH_URL, exp |-> e]

ExpValues ==
    { Start - Leeway - 1, Start - Leeway, Start - Leeway + 1,
      Start - 1, Start, Start + 1, Start + Leeway }

Far == Start + Leeway

Payloads ==
    { BaseClaims(e) : e \in ExpValues }
    \cup { [BaseClaims(Far) EXCEPT !.aud = "aud-other"],
           [BaseClaims(Far) EXCEPT !.iss = "iss-other"],
           [aud |-> API_AUDIENCE, iss |-> BETTER_AUTH_URL, exp |-> Far],
           [sub |-> "u1", aud |-> API_AUDIENCE, iss |-> BETTER_AUTH_URL],
           [sub |-> "u1", aud |-> API_AUDIENCE, iss |-> BETTER_AUTH_URL,
            exp |-> Far, nbf |-> Far + 1],
           [sub |-> "u1", aud |-> API_AUDIENCE, iss |-> BETTER_AUTH_URL,
            exp |-> Far, iat |-> Far + 1] }

Jwt(h, c, s) == << HdrPart(h), PlPart(c), SigPart(s) >>

\* Header and signer as an issuer pairs them, and one tampered pairing.
IssuedPairs ==
    { << [alg |-> "EdDSA", kid |-> "k1"], "k1" >>,
      << [alg |-> "RS256", kid |-> "k2"], "k2" >>,
      << [alg |-> "HS256"], "s1" >>,
      << [alg |-> "EdDSA", kid |-> "k1"], "bad" >> }

\* Every header with every signer over the plain claims, and every payload
\* under each issued pairing.
JwtTokens ==
    { Jwt(h, BaseClaims(Far), s) : h \in Headers, s \in Signers }
    \cup { Jwt(p[1], c, p[2]) : p \in IssuedPairs, c \in Payloads }

\* A structurally valid token with a tampered signature whose whole text is
\* also the token column of a Session row.
StoredJwt == Jwt([alg |-> "EdDSA", kid |-> "k1"], BaseClaims(Far), "bad")

OpaqueTokens ==
    { << Raw("v1") >>, << Raw("v2") >>, << Raw("v3") >>, << Raw("v9") >>,
      << Raw("v1"), Raw("x") >>, << Raw("v1"), Raw("y") >>,
      << Raw("v2"), Raw("x") >>, << Raw("v3"), Raw("x") >>,
      << Raw("v9"), Raw("x") >>, << Raw("v1"), Raw("") >>,
      << Raw("v1"), Raw("x"), Raw("y") >>,
      << Raw("v1"), Raw("x"), Raw("y"), Raw("z") >> }

Tokens == JwtTokens \cup OpaqueTokens

\* Session rows: expiresAt is a datetime, either naive (aware = FALSE, wall
\* = the stored wall-clock reading) or aware (wall = its UTC reading).
SessionRow(tok, user, wall, aware) ==
    [token |-> tok, userId |-> user,
     expiresAt |-> [wall |-> wall, aware |-> aware]]

SessionTable ==
    { SessionRow(<< Raw("v1") >>, "u1", Far, FALSE),
      SessionRow(<< Raw("v2") >>, "u2", Start - 1, FALSE),
      SessionRow(<< Raw("v3") >>, "u3", Start, TRUE),
      SessionRow(StoredJwt, "u4", Far, TRUE) }

KeySets == { {"k1"}, {"k1", "k2"}, {"k2"} }

NoCache == [valid |-> FALSE, keys |-> {}]
Cached(ks) == [valid |-> TRUE, keys |-> ks]

NoToken == << >>
NoResult == [kind |-> "none"]
NoPrev == [kind |-> "none"]

NoReq == [op |-> "none"]
NoChat == [agent |-> "none"]
NoCall == [tool |-> "none"]
NoResp == [status |-> 0]
NoOp == [op |-> "none", raised |-> FALSE]
NoFile == [written |-> FALSE]

\* The requests the server handles at the same time, each in a coroutine
\* with a database session of its own (database.py:48-51).
Workers == { "r1", "r2" }

\* No second verify_token call is in flight.
IdleCall ==
    [pc |-> "idle", token |-> << >>, result |-> [kind |-> "none"],
     repopulated |-> FALSE]

\* No request is being served by the worker.
IdleRequest ==
    [pc |-> "idle", task_id |-> "None", current |-> {}, conflict |-> FALSE,
     status |-> 0]

\* Nothing is in progress outside the verify_token call and the task table
\* is empty.
AppIdle ==
    /\ prev = NoPrev
    /\ req = NoReq
    /\ resp = NoResp
    /\ tasks = {}
    /\ storeLog = << >>
    /\ DATABASE_READY = TRUE
    /\ chat = NoChat
    /\ tasks3 = {}
    /\ nextId = 1
    /\ lastCall = NoCall
    /\ store_tasks = << >>
    /\ next_id = 1
    /\ storeFile = NoFile
    /\ lastOp = NoOp
    /\ assignedIds = << >>
    /\ inflight = [w \in Workers |-> IdleRequest]
    /\ origin = {}
    /\ other = IdleCall


-----------------------------------------------------------------------------
(* PyJWKClient: the JWK-set cache and the key lookup (auth.py:32, 45) *)

\* fetch_data: one GET of JWKS_URL; its finally-clause stores what it got in
\* the cache, which a failed fetch therefore empties.
FetchData(reach, remote) ==
    IF reach
    THEN [ok |-> TRUE, keys |-> remote, cache |-> Cached(remote)]
    ELSE [ok |-> FALSE, keys |-> {}, cache |-> NoCache]

\* A cache that is used up by the call it serves.
GetJwkSet_ConsumesCache(cache, refresh, reach, remote) ==
    IF cache.valid /\ ~refresh
    THEN [ok |-> TRUE, keys |-> cache.keys, cache |-> NoCache, fetched |-> << >>]
    ELSE LET f == FetchData(reach, remote)
         IN  [ok |-> f.ok, keys |-> f.keys, cache |-> f.cache,
              fetched |-> << f.ok >>]

\* get_jwk_set(refresh): the cached set unless it lapsed or a refresh is asked.
GetJwkSet(cache, refresh, reach, remote) ==
    IF cache.valid /\ ~refresh
    THEN [ok |-> TRUE, keys |-> cache.keys, cache |-> cache, fetched |-> << >>]
    ELSE LET f == FetchData(reach, remote)
         IN  [ok |-> f.ok, keys |-> f.keys, cache |-> f.cache,
              fetched |-> << f.ok >>]

\* The key lookup without the refresh on a miss.
GetSigningKey_NoRefresh(kid, cache, reach, remote) ==
    LET a == GetJwkSet(cache, FALSE, reach, remote)
    IN  [err |-> IF ~a.ok THEN "PyJWKClientConnectionError"
                 ELSE IF kid \in a.keys THEN "" ELSE "PyJWKClientError",
         key |-> IF a.ok /\ kid \in a.keys THEN kid ELSE "",
         cache |-> a.cache,
         fetched |-> a.fetched]

\* get_signing_key(kid): match in the current set, refresh once on a miss.
GetSigningKey(kid, cache, reach, remote) ==
    LET a == GetJwkSet(cache, FALSE, reach, remote)
    IN  IF ~a.ok
        THEN [err |-> "PyJWKClientConnectionError", key |-> "",
              cache |-> a.cache, fetched |-> a.fetched]
        ELSE IF kid \in a.keys
        THEN [err |-> "", key |-> kid, cache |-> a.cache, fetched |-> a.fetched]
        ELSE LET b == GetJwkSet(a.cache, TRUE, reach, remote)
             IN  [err |-> IF ~b.ok THEN "PyJWKClientConnectionError"
                          ELSE IF kid \in b.keys THEN ""
                          ELSE "PyJWKClientError",
                  key |-> IF b.ok /\ kid \in b.keys THEN kid ELSE "",
                  cache |-> b.cache,
                  fetched |-> a.fetched \o b.fetched]

\* A credential PyJWT can split and decode: three segments, each decodable.
WellFormed(tok) ==
    /\ Len(tok) = 3
    /\ tok[1].t = "hdr"
    /\ tok[2].t = "pl"
    /\ tok[3].t = "sig"

\* header.get("kid")
HeaderKid(h) == IF "kid" \in DOMAIN h THEN h.kid ELSE "None"

\* get_signing_key_from_jwt(token): the unverified header's kid, then the key.
GetSigningKeyFromJwt(tok, cache, reach, remote) ==
    IF ~WellFormed(tok)
    THEN [err |-> "DecodeError", key |-> "", cache |-> cache, fetched |-> << >>]
    ELSE GetSigningKey(HeaderKid(tok[1].h), cache, reach, remote)

-----------------------------------------------------------------------------
(* jwt.decode (auth.py:47-55 and 64-70) *)

\* The leeway taken for minutes.
Expired_LeewayInMinutes(exp, t, leeway) == exp <= t - 60 * leeway

\* _validate_exp: expired once exp <= now - leeway.
Expired(exp, t, leeway) == exp <= t - leeway

\* _validate_nbf, _validate_iat: not yet valid while the claim > now + leeway.
Immature(nbf, t, leeway) == nbf > t + leeway

\* The signature part verifies under the header's algorithm with this key:
\* a key of the key set verifies what its private half signed with the
\* key's own algorithm, the shared secret verifies its own HMAC.
SignatureOk(tok, key) ==
    /\ tok[3].by = key
    /\ \/ key \notin UNION KeySets
       \/ KeyAlg(key) = tok[1].h.alg

\* The registered-claim checks, in PyJWT's order.
ClaimsError(c, t, leeway, audience, issuer) ==
    IF "iat" \in DOMAIN c /\ Immature(c.iat, t, leeway)
    THEN "ImmatureSignatureError"
    ELSE IF "nbf" \in DOMAIN c /\ Immature(c.nbf, t, leeway)
    THEN "ImmatureSignatureError"
    ELSE IF "exp" \in DOMAIN c /\ Expired(c.exp, t, leeway)
    THEN "ExpiredSignatureError"
    ELSE IF "iss" \notin DOMAIN c THEN "MissingRequiredClaimError"
    ELSE IF c.iss # issuer THEN "InvalidIssuerError"
    ELSE IF "aud" \notin DOMAIN c THEN "MissingRequiredClaimError"
    ELSE IF c.aud # audience THEN "InvalidAudienceError"
    ELSE ""

\* jwt.decode without the test of the header's algorithm against the list.
JwtDecode_NoAlgorithmCheck(tok, key, algorithms, t, leeway, audience, issuer) ==
    IF ~WellFormed(tok) THEN "DecodeError"
    ELSE IF ~SignatureOk(tok, key) THEN "InvalidSignatureError"
    ELSE ClaimsError(tok[2].c, t, leeway, audience, issuer)

\* jwt.decode(token, key, algorithms, audience, issuer, leeway): "" and the
\* payload, or the error it raises.
JwtDecode(tok, key, algorithms, t, leeway, audience, issuer) ==
    IF ~WellFormed(tok) THEN "DecodeError"
    ELSE IF tok[1].h.alg \notin algorithms THEN "InvalidAlgorithmError"
    ELSE IF ~SignatureOk(tok, key) THEN "InvalidSignatureError"
    ELSE ClaimsError(tok[2].c, t, leeway, audience, issuer)

\* The permitted list without RS256.
JwksAlgorithms_EdDSAOnly == { "EdDSA" }

\* auth.py:50
JwksAlgorithms == { "EdDSA", "RS256" }

\* auth.py:67
SecretAlgorithms == { "HS256" }

\* A handler that catches PyJWT's errors only.
Catches_JwtErrorsOnly(e) == e \notin { "OperationalError", "HTTPException" }

\* A handler that lets an HTTPException through.
Catches_NotHttpException(e) == e # "HTTPException"

\* Everything the three blocks raise derives from Exception, which is what
\* the handlers at auth.py:58, 73 and 107 catch.
ExceptExceptionCatches(e) == TRUE

-----------------------------------------------------------------------------
(* The session block (auth.py:76-108) *)

\* Stripping wherever the credential holds a dot.
RawToken_StripAnyDot(tok) == IF Len(tok) >= 2 THEN << tok[1] >> ELSE tok

\* Stripping only a signature part that verifies ("x" standing for the
\* signature the issuer would have made).
RawToken_SignatureVerified(tok) ==
    IF Len(tok) = 2 /\ tok[2] = Raw("x") THEN << tok[1] >> ELSE tok

\* auth.py:82-86: the part before the dot of a two-part credential, else the
\* credential as it came.
RawToken(tok) == IF Len(tok) = 2 THEN << tok[1] >> ELSE tok

\* auth.py:94: a naive expiresAt is read as a UTC wall clock.
SessionExpiry(e) == e.wall

\* auth.py:105: datetime.timestamp() reads a naive datetime as local time.
Timestamp(e, tz) == IF e.aware THEN e.wall ELSE e.wall - tz

\* A lookup that matches on the first part of the stored token.
FirstSession_FirstPart(rows, key) ==
    LET hit == { r \in rows : r.token[1] = key[1] }
    IN  IF hit = {} THEN {} ELSE { CHOOSE r \in hit : TRUE }

\* auth.py:88-90: result.first() of the rows whose token equals the key.
FirstSession(rows, key) ==
    LET hit == { r \in rows : r.token = key }
    IN  IF hit = {} THEN {} ELSE { CHOOSE r \in hit : TRUE }

\* auth.py:102-106
SessionClaims(s, tz) ==
    [sub |-> s.userId, type |-> "session", exp |-> Timestamp(s.expiresAt, tz)]

\* auth.py:96
SessionIsExpired(s, t) == SessionExpiry(s.expiresAt) < t

\* The try block of auth.py:77-106: what it raises ("" if nothing) and what
\* it returns ({} if it falls out of the block).
SessionBlock(tok, rows, up, t, tz) ==
    LET found == FirstSession(rows, RawToken(tok))
    IN  IF ~up THEN [err |-> "OperationalError", ret |-> {}]
        ELSE IF found = {} THEN [err |-> "", ret |-> {}]
        ELSE LET s == CHOOSE r \in found : TRUE
             IN  IF SessionIsExpired(s, t)
                 THEN [err |-> "HTTPException", ret |-> {}]
                 ELSE [err |-> "", ret |-> { SessionClaims(s, tz) }]

-----------------------------------------------------------------------------
(* verify_token (auth.py:34-115), one action per block *)

Returned(claims, by) == [kind |-> "claims", claims |-> claims, by |-> by]

\* auth.py:112-115
InvalidToken ==
    [kind |-> "http", status |-> HTTP_401_UNAUTHORIZED, detail |-> "Invalid token"]

\* An exception no handler of verify_token caught.
Escaped(e) == [kind |-> "error", error |-> e]

LogRec(level, at) == [level |-> level, at |-> at]

Init ==
    /\ JWT_SECRET \in { "", "s1" }
    /\ tzOffset \in { 0, 3600 }
    /\ jwkCache = NoCache
    /\ remoteKeys = { "k1" }
    /\ reachable = TRUE
    /\ dbUp = TRUE
    /\ sessions = SessionTable
    /\ now = Start
    /\ pc = "idle"
    /\ token = NoToken
    /\ attempted = << >>
    /\ verdicts = << >>
    /\ fetches = << >>
    /\ lookups = << >>
    /\ log = << >>
    /\ result = NoResult
    /\ AppIdle

\* get_current_user hands a credential to verify_token (auth.py:132).
Request(tok) ==
    /\ pc = "idle"
    /\ pc' = "jwks"
    /\ token' = tok
    /\ UNCHANGED << attempted, verdicts, fetches, lookups, log, result >>
    /\ UNCHANGED jwkCache
    /\ UNCHANGED envVars
    /\ UNCHANGED appVars

\* The JWKS block as it would be if the token being verified were kept in
\* a module-level slot that the call arrived last overwrites.
JwksBlock_SharedTokenSlot ==
    /\ pc = "jwks"
    /\ LET tok == IF other.pc # "idle" THEN other.token ELSE token
           g == GetSigningKeyFromJwt(tok, jwkCache, reachable, remoteKeys)
           e == IF g.err # "" THEN g.err
                ELSE JwtDecode(token, g.key, JwksAlgorithms, now, Leeway,
                               API_AUDIENCE, BETTER_AUTH_URL)
       IN  /\ jwkCache' = g.cache
           /\ fetches' = fetches \o g.fetched
           /\ attempted' = Append(attempted, "jwks")
           /\ verdicts' = Append(verdicts, e)
           /\ IF e = ""
              THEN /\ log' = Append(log, LogRec("INFO", "jwks"))
                   /\ result' = Returned(token[2].c, "jwks")
                   /\ pc' = "done"
              ELSE /\ log' = Append(log, LogRec("WARNING", "jwks"))
                   /\ result' = result
                   /\ pc' = "hs256"
    /\ UNCHANGED << token, lookups >>
    /\ UNCHANGED envVars
    /\ UNCHANGED appVars

\* auth.py:43-59
JwksBlock ==
    /\ pc = "jwks"
    /\ LET g == GetSigningKeyFromJwt(token, jwkCache, reachable, remoteKeys)
           e == IF g.err # "" THEN g.err
                ELSE JwtDecode(token, g.key, JwksAlgorithms, now, Leeway,
                               API_AUDIENCE, BETTER_AUTH_URL)
       IN  /\ jwkCache' = g.cache
           /\ fetches' = fetches \o g.fetched
           /\ attempted' = Append(attempted, "jwks")
           /\ verdicts' = Append(verdicts, e)
           /\ IF e = ""
              THEN /\ log' = Append(log, LogRec("INFO", "jwks"))
                   /\ result' = Returned(token[2].c, "jwks")
                   /\ pc' = "done"
              ELSE IF ExceptExceptionCatches(e)
              THEN /\ log' = Append(log, LogRec("WARNING", "jwks"))
                   /\ result' = result
                   /\ pc' = "hs256"
              ELSE /\ log' = log
                   /\ result' = Escaped(e)
                   /\ pc' = "done"
    /\ UNCHANGED << token, lookups >>
    /\ UNCHANGED envVars
    /\ UNCHANGED appVars

\* SecretBlock as it would be if the HS256 decode were reserved to
\* credentials of three parts.
SecretBlock_ShapeGated ==
    /\ pc = "hs256"
    /\ IF JWT_SECRET # "" /\ Len(token) = 3
       THEN LET e == JwtDecode(token, JWT_SECRET, SecretAlgorithms, now,
                               DefaultLeeway, API_AUDIENCE, BETTER_AUTH_URL)
            IN  /\ attempted' = Append(attempted, "hs256")
                /\ verdicts' = Append(verdicts, e)
                /\ IF e = ""
                   THEN /\ log' = Append(log, LogRec("INFO", "hs256"))
                        /\ result' = Returned(token[2].c, "hs256")
                        /\ pc' = "done"
                   ELSE /\ log' = Append(log, LogRec("WARNING", "hs256"))
                        /\ result' = result
                        /\ pc' = "session"
       ELSE /\ pc' = "session"
            /\ UNCHANGED << attempted, verdicts, log, result >>
    /\ UNCHANGED << token, jwkCache, fetches, lookups >>
    /\ UNCHANGED envVars
    /\ UNCHANGED appVars

\* SecretBlock as it would be without the test of JWT_SECRET at auth.py:62.
SecretBlock_NoConfigTest ==
    /\ pc = "hs256"
    /\ LET e == JwtDecode(token, JWT_SECRET, SecretAlgorithms, now,
                          DefaultLeeway, API_AUDIENCE, BETTER_AUTH_URL)
       IN  /\ attempted' = Append(attempted, "hs256")
           /\ verdicts' = Append(verdicts, e)
           /\ IF e = ""
              THEN /\ log' = Append(log, LogRec("INFO", "hs256"))
                   /\ result' = Returned(token[2].c, "hs256")
                   /\ pc' = "done"
              ELSE /\ log' = Append(log, LogRec("WARNING", "hs256"))
                   /\ result' = result
                   /\ pc' = "session"
    /\ UNCHANGED << token, jwkCache, fetches, lookups >>
    /\ UNCHANGED envVars
    /\ UNCHANGED appVars

\* SecretBlock as it would be if a failed HS256 decode ended the call.
SecretBlock_FailureRejects ==
    /\ pc = "hs256"
    /\ IF JWT_SECRET # ""
       THEN LET e == JwtDecode(token, JWT_SECRET, SecretAlgorithms, now,
                               DefaultLeeway, API_AUDIENCE, BETTER_AUTH_URL)
            IN  /\ attempted' = Append(attempted, "hs256")
                /\ verdicts' = Append(verdicts, e)
                /\ log' = Append(log, LogRec(IF e = "" THEN "INFO" ELSE "WARNING",
                                             "hs256"))
                /\ result' = IF e = "" THEN Returned(token[2].c, "hs256")
                              ELSE InvalidToken
                /\ pc' = "done"
       ELSE /\ pc' = "session"
            /\ UNCHANGED << attempted, verdicts, log, result >>
    /\ UNCHANGED << token, jwkCache, fetches, lookups >>
    /\ UNCHANGED envVars
    /\ UNCHANGED appVars

\* auth.py:61-74
SecretBlock ==
    /\ pc = "hs256"
    /\ IF JWT_SECRET # ""
       THEN LET e == JwtDecode(token, JWT_SECRET, SecretAlgorithms, now,
                               DefaultLeeway, API_AUDIENCE, BETTER_AUTH_URL)
            IN  /\ attempted' = Append(attempted, "hs256")
                /\ verdicts' = Append(verdicts, e)
                /\ IF e = ""
                   THEN /\ log' = Append(log, LogRec("INFO", "hs256"))
                        /\ result' = Returned(token[2].c, "hs256")
                        /\ pc' = "done"
                   ELSE IF ExceptExceptionCatches(e)
                   THEN /\ log' = Append(log, LogRec("WARNING", "hs256"))
                        /\ result' = result
                        /\ pc' = "session"
                   ELSE /\ log' = log
                        /\ result' = Escaped(e)
                        /\ pc' = "done"
       ELSE /\ pc' = "session"
            /\ UNCHANGED << attempted, verdicts, log, result >>
    /\ UNCHANGED << token, jwkCache, fetches, lookups >>
    /\ UNCHANGED envVars
    /\ UNCHANGED appVars

\* The session lookup as it would be if a session were consumed by the call
\* it authenticates.
SessionLookup_ConsumesSession ==
    /\ pc = "session"
    /\ LET b == SessionBlock(token, sessions, dbUp, now, tzOffset)
       IN  /\ attempted' = Append(attempted, "session")
           /\ lookups' = Append(lookups, RawToken(token))
           /\ verdicts' = Append(verdicts,
                 IF b.err # "" THEN b.err
                 ELSE IF b.ret = {} THEN "NotFound" ELSE "")
           /\ sessions' = IF b.ret # {}
                          THEN sessions \ FirstSession(sessions, RawToken(token))
                          ELSE sessions
           /\ IF b.ret # {}
              THEN /\ log' = log
                   /\ result' = Returned(CHOOSE c \in b.ret : TRUE, "session")
              ELSE IF b.err = ""
              THEN /\ log' = Append(log, LogRec("WARNING", "all"))
                   /\ result' = InvalidToken
              ELSE /\ log' = log \o << LogRec("ERROR", "session"),
                                       LogRec("WARNING", "all") >>
                   /\ result' = InvalidToken
    /\ pc' = "done"
    /\ UNCHANGED << token, jwkCache, fetches >>
    /\ UNCHANGED << JWT_SECRET, tzOffset, remoteKeys, reachable, dbUp, now >>
    /\ UNCHANGED appVars

\* auth.py:76-115: the session lookup and, when it yields nothing, the final
\* rejection.
SessionLookup ==
    /\ pc = "session"
    /\ LET b == SessionBlock(token, sessions, dbUp, now, tzOffset)
       IN  /\ attempted' = Append(attempted, "session")
           /\ lookups' = Append(lookups, RawToken(token))
           /\ verdicts' = Append(verdicts,
                 IF b.err # "" THEN b.err
                 ELSE IF b.ret = {} THEN "NotFound" ELSE "")
           /\ IF b.ret # {}
              THEN /\ log' = log
                   /\ result' = Returned(CHOOSE c \in b.ret : TRUE, "session")
              ELSE IF b.err = ""
              THEN /\ log' = Append(log, LogRec("WARNING", "all"))
                   /\ result' = InvalidToken
              ELSE IF ExceptExceptionCatches(b.err)
              THEN /\ log' = log \o << LogRec("ERROR", "session"),
                                       LogRec("WARNING", "all") >>
                   /\ result' = InvalidToken
              ELSE /\ log' = log
                   /\ result' = Escaped(b.err)
    /\ pc' = "done"
    /\ UNCHANGED << token, jwkCache, fetches >>
    /\ UNCHANGED envVars
    /\ UNCHANGED appVars

\* The call is over; the next request starts from a clean slate.
Respond ==
    /\ pc = "done"
    /\ pc' = "idle"
    /\ token' = NoToken
    /\ attempted' = << >>
    /\ verdicts' = << >>
    /\ fetches' = << >>
    /\ lookups' = << >>
    /\ log' = << >>
    /\ result' = NoResult
    /\ UNCHANGED jwkCache
    /\ UNCHANGED envVars
    /\ UNCHANGED appVars

callVars == << pc, token, attempted, verdicts, fetches, lookups, log, result >>

\* The clock advances.
Tick ==
    /\ now < Start + MaxTick
    /\ now' = now + 1
    /\ UNCHANGED << JWT_SECRET, tzOffset, remoteKeys, reachable, dbUp, sessions >>
    /\ UNCHANGED jwkCache
    /\ UNCHANGED callVars
    /\ UNCHANGED appVars

\* The issuer rotates its keys.
RotateKeys(ks) ==
    /\ ks # remoteKeys
    /\ remoteKeys' = ks
    /\ UNCHANGED << JWT_SECRET, tzOffset, reachable, dbUp, sessions, now >>
    /\ UNCHANGED jwkCache
    /\ UNCHANGED callVars
    /\ UNCHANGED appVars

\* The cached JWK set outlives its lifespan.
CacheLapse ==
    /\ jwkCache.valid
    /\ jwkCache' = NoCache
    /\ UNCHANGED envVars
    /\ UNCHANGED callVars
    /\ UNCHANGED appVars

\* The JWKS endpoint goes down or comes back.
EndpointFlip ==
    /\ reachable' = ~reachable
    /\ UNCHANGED << JWT_SECRET, tzOffset, remoteKeys, dbUp, sessions, now >>
    /\ UNCHANGED jwkCache
    /\ UNCHANGED callVars
    /\ UNCHANGED appVars

\* The session store goes down or comes back.
StoreFlip ==
    /\ dbUp' = ~dbUp
    /\ UNCHANGED << JWT_SECRET, tzOffset, remoteKeys, reachable, sessions, now >>
    /\ UNCHANGED jwkCache
    /\ UNCHANGED callVars
    /\ UNCHANGED appVars

Next ==
    \/ \E tok \in Tokens : Request(tok)
    \/ JwksBlock
    \/ SecretBlock
    \/ SessionLookup
    \/ Respond
    \/ Tick
    \/ \E ks \in KeySets : RotateKeys(ks)
    \/ CacheLapse
    \/ EndpointFlip
    \/ StoreFlip

Spec == Init /\ [][Next]_vars

-----------------------------------------------------------------------------
(* Properties *)

Last(q) == q[Len(q)]

IsPrefix(p, q) ==
    /\ Len(p) <= Len(q)
    /\ \A i \in 1..Len(p) : p[i] = q[i]

\* The block that has just been left by the step from this state to the next.
Leaves(at) == pc = at /\ pc' # at

\* The verifiers the configuration enables, in the order of the source.
Chain ==
    IF JWT_SECRET # "" THEN << "jwks", "hs256", "session" >>
    ELSE << "jwks", "session" >>

\* C1: the verifiers are entered in the fixed order JWKS, shared secret,
\* session lookup; a later one is entered only after every earlier one has
\* failed; the claims returned are those of the first verifier to succeed,
\* after which no other is entered; which verifiers are entered depends on
\* the configuration and on the earlier verdicts, never on the number of
\* parts of the credential: a call that ends rejected has entered them all.
C1_FixedOrder ==
    /\ IsPrefix(attempted, Chain)
    /\ Len(verdicts) = Len(attempted)
    /\ \A i \in 1..Len(attempted) : i < Len(attempted) => verdicts[i] # ""
    /\ result.kind = "claims" =>
          /\ attempted # << >>
          /\ result.by = Last(attempted)
          /\ Last(verdicts) = ""
          /\ pc = "done"
    /\ (pc = "done" /\ result.kind # "claims") => attempted = Chain
    /\ pc = "hs256" => attempted = << "jwks" >>
    /\ pc = "session" => Append(attempted, "session") = Chain

\* A credential of one part that ran through the three verifiers, the last
\* of which accepted it.
C1_Witness ==
    /\ pc = "done"
    /\ Len(token) = 1
    /\ attempted = << "jwks", "hs256", "session" >>
    /\ result.kind = "claims"

\* C2: a call ends either with the claims of exactly one verifier or with
\* the 401 rejection, and with nothing else, whatever a block raised; it is
\* rejected exactly when every verifier the configuration enables was
\* entered and failed; a credential that is no signed token and matches no
\* session row is rejected.
C2_TwoOutcomes ==
    /\ pc # "done" => result = NoResult
    /\ pc = "done" =>
          /\ result.kind \in { "claims", "http" }
          /\ result.kind = "http" => result = InvalidToken
          /\ result = InvalidToken <=>
                /\ attempted = Chain
                /\ \A i \in 1..Len(verdicts) : verdicts[i] # ""
          /\ result.kind = "claims" =>
                Cardinality({ i \in 1..Len(verdicts) : verdicts[i] = "" }) = 1
          /\ ( /\ ~WellFormed(token)
               /\ \A r \in sessions : r.token # RawToken(token) )
             => result = InvalidToken

\* A call rejected with 401 after the session store raised.
C2_Witness ==
    /\ pc = "done"
    /\ result = InvalidToken
    /\ Last(verdicts) = "OperationalError"

\* An asymmetric token signed with a key the remote key set holds, with the
\* configured audience and issuer and an expiry in the future.
ValidAsymmetric(tok, remote, t) ==
    /\ WellFormed(tok)
    /\ "kid" \in DOMAIN tok[1].h
    /\ tok[1].h.kid \in remote
    /\ tok[1].h.alg = KeyAlg(tok[1].h.kid)
    /\ tok[3].by = tok[1].h.kid
    /\ "aud" \in DOMAIN tok[2].c /\ tok[2].c.aud = API_AUDIENCE
    /\ "iss" \in DOMAIN tok[2].c /\ tok[2].c.iss = BETTER_AUTH_URL
    /\ "exp" \in DOMAIN tok[2].c /\ tok[2].c.exp > t

\* The not-before and issued-at claims that lie beyond the leeway.
NotYetValidClaims(tok, t) ==
    { n \in { "nbf", "iat" } \cap DOMAIN tok[2].c : tok[2].c[n] > t + Leeway }

AcceptedByJwks(tok) ==
    /\ pc' = "done"
    /\ result' = Returned(tok[2].c, "jwks")
    /\ "sub" \in DOMAIN tok[2].c => result'.claims.sub = tok[2].c.sub

\* C3 as stated: every such token is accepted by the JWKS block.
C3_AsStated ==
    [][ (Leaves("jwks") /\ ValidAsymmetric(token, remoteKeys, now))
        => AcceptedByJwks(token) ]_vars

\* C3: every such token whose not-before and issued-at, if any, are not
\* beyond the leeway is accepted by the JWKS block with its own claims, provided the key can
\* be had: it is in the cached key set or the endpoint answers.
C3_ValidAsymmetricAccepted ==
    [][ ( /\ Leaves("jwks")
          /\ ValidAsymmetric(token, remoteKeys, now)
          /\ NotYetValidClaims(token, now) = {}
          /\ reachable \/ token[1].h.kid \in jwkCache.keys )
        => AcceptedByJwks(token) ]_vars

\* An RS256 token of the rotated-in key accepted after a refresh of a cache
\* that did not hold the key.
C3_Witness ==
    /\ pc = "done"
    /\ result.kind = "claims"
    /\ result.by = "jwks"
    /\ token[1].h.kid = "k2"
    /\ "sub" \in DOMAIN result.claims
    /\ result.claims.sub = "u1"
    /\ Len(fetches) = 1

LongExpired(tok, t) ==
    /\ WellFormed(tok)
    /\ "exp" \in DOMAIN tok[2].c
    /\ tok[2].c.exp < t - Leeway

NoNotBefore(tok) == { "nbf", "iat" } \cap DOMAIN tok[2].c = {}

\* C4: a signed token whose expiry lies more than 60 seconds back is
\* accepted neither by the JWKS block nor by the shared-secret block, and
\* where its key is at hand and its signature verifies the verdict is
\* "expired".
C4_LongExpiredRejected ==
    [][ /\ (Leaves("jwks") /\ LongExpired(token, now)) =>
              /\ pc' = "hs256"
              /\ Last(verdicts') # ""
              /\ ( /\ ValidAsymmetric(token, jwkCache.keys, token[2].c.exp - 1)
                   /\ NoNotBefore(token) )
                 => Last(verdicts') = "ExpiredSignatureError"
        /\ (Leaves("hs256") /\ LongExpired(token, now) /\ JWT_SECRET # "") =>
              /\ pc' = "session"
              /\ Last(verdicts') # ""
              /\ ( /\ token[1].h.alg = "HS256"
                   /\ token[3].by = JWT_SECRET
                   /\ NoNotBefore(token) )
                 => Last(verdicts') = "ExpiredSignatureError"
      ]_vars

\* A token expired for more than the leeway, otherwise valid for the JWKS
\* block, rejected there as expired and then rejected by the secret block.
C4_Witness ==
    /\ pc = "session"
    /\ LongExpired(token, now)
    /\ verdicts[1] = "ExpiredSignatureError"
    /\ Len(verdicts) = 2

\* A token signed with the configured shared secret that the secret block
\* can fault on its expiry alone.
SecretSignedOtherwiseValid(tok) ==
    /\ WellFormed(tok)
    /\ tok[1].h.alg = "HS256"
    /\ tok[3].by = JWT_SECRET
    /\ NoNotBefore(tok)
    /\ "aud" \in DOMAIN tok[2].c /\ tok[2].c.aud = API_AUDIENCE
    /\ "iss" \in DOMAIN tok[2].c /\ tok[2].c.iss = BETTER_AUTH_URL
    /\ "exp" \in DOMAIN tok[2].c

\* C5: the shared-secret block gives a token the expiry verdict the JWKS
\* block's check gives the same claims, the 60-second leeway included: it
\* faults the expiry exactly when the expiry lies 60 seconds back or more.
C5_SameExpiryVerdict ==
    [][ ( /\ Leaves("hs256")
          /\ JWT_SECRET # ""
          /\ SecretSignedOtherwiseValid(token) )
        => ( Last(verdicts') = "ExpiredSignatureError"
             <=> Expired(token[2].c.exp, now, Leeway) ) ]_vars

\* The key identifier of the header is not among the keys the cache holds.
KidNotCached(tok, cache) ==
    /\ WellFormed(tok)
    /\ HeaderKid(tok[1].h) \notin cache.keys

\* C6: for a token whose key identifier the cache does not hold, the JWKS
\* block fetches the remote key set; when the fetch fails or the key set it
\* brings still lacks the identifier, the block fails with a key error and
\* the call goes on to the shared-secret block, nothing yet returned.
C6_RefreshThenFallThrough ==
    [][ (Leaves("jwks") /\ KidNotCached(token, jwkCache)) =>
           /\ Len(fetches') > Len(fetches)
           /\ ( \/ ~Last(fetches')
                \/ HeaderKid(token[1].h) \notin jwkCache'.keys )
              => /\ pc' = "hs256"
                 /\ result' = NoResult
                 /\ Last(verdicts') \in
                       { "PyJWKClientError", "PyJWKClientConnectionError" }
      ]_vars

\* A warm cache without the token's key, refreshed, the key still absent,
\* the call now at the shared-secret block.
C6_Witness ==
    /\ pc = "hs256"
    /\ WellFormed(token)
    /\ HeaderKid(token[1].h) = "k3"
    /\ fetches = << TRUE >>
    /\ verdicts = << "PyJWKClientError" >>

\* C7: with no shared secret configured the HS256 decode is never entered
\* and never yields the claims; the call passes from the failed JWKS block
\* to the session lookup with nothing verified, logged or returned between.
C7_UnconfiguredSkipsSecret ==
    [][ JWT_SECRET = "" =>
           /\ \A i \in 1..Len(attempted') : attempted'[i] # "hs256"
           /\ result'.kind = "claims" => result'.by # "hs256"
           /\ Leaves("hs256") =>
                 /\ pc' = "session"
                 /\ UNCHANGED << attempted, verdicts, log, result, jwkCache >>
      ]_vars

\* With the secret unset, a token correctly signed with a secret has
\* reached the session lookup with the JWKS block alone entered.
C7_Witness ==
    /\ JWT_SECRET = ""
    /\ pc = "session"
    /\ WellFormed(token)
    /\ token[1].h.alg = "HS256"
    /\ token[3].by = "s1"
    /\ attempted = << "jwks" >>

\* The session rows whose token is the first part of a two-part credential.
RowsOfValue(tok) == { r \in sessions : r.token = << tok[1] >> }

\* C8: for a two-part credential the store answers for: no row with token =
\* the first part gives 401; a row whose expiry is in the past gives 401; a
\* row whose expiry is in the future gives the claims sub = its userId, exp
\* = its stored expiry, type = "session".
C8_TwoPartSession ==
    [][ (Leaves("session") /\ Len(token) = 2 /\ dbUp) =>
           /\ RowsOfValue(token) = {} => result' = InvalidToken
           /\ \A r \in RowsOfValue(token) :
                 /\ SessionExpiry(r.expiresAt) < now => result' = InvalidToken
                 /\ SessionExpiry(r.expiresAt) > now =>
                       result' = Returned([sub |-> r.userId,
                                           type |-> "session",
                                           exp |-> SessionExpiry(r.expiresAt)],
                                          "session")
      ]_vars

\* A structurally valid three-part token whose signature was tampered with.
Tampered(tok) == WellFormed(tok) /\ tok[3].by = "bad"

\* C9 as stated: such a token is never the key, stripped or whole, of a
\* session lookup, and is never authenticated by a session row.
C9_AsStated ==
    Tampered(token) =>
       /\ \A i \in 1..Len(lookups) : lookups[i] \notin { token, << token[1] >> }
       /\ result.kind = "claims" => result.by # "session"

\* C9: such a token fails both signed-token blocks and is never stripped;
\* the session lookup is made with the whole credential, and the token is
\* authenticated only by a session row whose token is the whole credential.
C9_TamperedNeverStripped ==
    Tampered(token) =>
       /\ \A i \in 1..Len(verdicts) :
             attempted[i] \in { "jwks", "hs256" } => verdicts[i] # ""
       /\ \A i \in 1..Len(lookups) : lookups[i] = token
       /\ result.kind = "claims" =>
             /\ result.by = "session"
             /\ \E r \in sessions :
                   /\ r.token = token
                   /\ result.claims.sub = r.userId

\* A tampered token whose whole text is a session token, authenticated by
\* that row.
C9_Witness ==
    /\ pc = "done"
    /\ Tampered(token)
    /\ lookups = << token >>
    /\ result.kind = "claims"

\* C10: the key of the session lookup is the first part of a two-part
\* credential, and the whole unmodified credential when the credential has
\* no dot or has two dots or more.
C10_StripOnlyTwoParts ==
    \A i \in 1..Len(lookups) :
       /\ Len(token) = 1 => lookups[i] = token
       /\ Len(token) = 2 => lookups[i] = << token[1] >>
       /\ Len(token) >= 3 => lookups[i] = token /\ Len(lookups[i]) = Len(token)

\* A three-part credential looked up whole.
C10_Witness ==
    /\ Len(token) = 3
    /\ lookups = << token >>
    /\ Len(Last(lookups)) = 3
-----------------------------------------------------------------------------
(* The rejection, the returned claims and the permitted algorithms *)

\* C13: whatever made the credential fail (a bad signature, an expired
\* signed token, an unknown session token, an expired session record, a
\* store that raised), a call that does not return claims ends with one and
\* the same response, status 401 and detail "Invalid token", and nothing in
\* it varies with the verdicts of the three blocks.
C13_GenericRejection ==
    ( pc = "done" /\ result.kind # "claims" ) =>
        /\ result.kind = "http"
        /\ DOMAIN result = { "kind", "status", "detail" }
        /\ result.status = 401
        /\ result.detail = "Invalid token"

\* A call rejected after the session row it matched had expired.
C13_Witness ==
    /\ pc = "done"
    /\ result.kind = "http"
    /\ Last(verdicts) = "HTTPException"

\* C15: every value verify_token returns carries a subject id.
C15_SubjectAlwaysPresent ==
    result.kind = "claims" => "sub" \in DOMAIN result.claims

\* The algorithm the header of a signed credential declares.
DeclaredAlg(tok) == tok[1].h.alg

\* C17: the asymmetric block returns a token's claims only if its header
\* declares EdDSA or RS256, the shared-secret block only if it declares
\* HS256; a token declaring "none" is accepted by neither.
C17_PermittedAlgorithmsOnly ==
    \A i \in 1..Len(verdicts) :
        ( verdicts[i] = "" /\ attempted[i] # "session" ) =>
            /\ WellFormed(token)
            /\ DeclaredAlg(token) # "none"
            /\ attempted[i] = "jwks" => DeclaredAlg(token) \in { "EdDSA", "RS256" }
            /\ attempted[i] = "hs256" => DeclaredAlg(token) = "HS256"

\* A token declaring "none" over a payload the shared secret signed, turned
\* down by the shared-secret block for its algorithm.
C17_Witness ==
    /\ pc = "done"
    /\ WellFormed(token)
    /\ DeclaredAlg(token) = "none"
    /\ token[3].by = "s1"
    /\ Len(verdicts) >= 2
    /\ attempted[2] = "hs256"
    /\ verdicts[2] = "InvalidAlgorithmError"

-----------------------------------------------------------------------------
(* Two calls in succession with the same credential (auth.py:117-132) *)

\* The first call of a pair: get_current_user hands the credential to
\* verify_token (auth.py:132); the key cache it starts from and the time are
\* remembered.
FirstCall(tok) ==
    /\ pc = "idle"
    /\ prev = NoPrev
    /\ pc' = "jwks"
    /\ token' = tok
    /\ prev' = [kind |-> "first", cache |-> jwkCache, at |-> now]
    /\ UNCHANGED << attempted, verdicts, fetches, lookups, log, result >>
    /\ UNCHANGED jwkCache
    /\ UNCHANGED envVars
    /\ UNCHANGED << req, resp, tasks, storeLog >>
    /\ UNCHANGED << DATABASE_READY, chat, tasks3, nextId, lastCall >>
    /\ UNCHANGED lateVars

\* What is kept of the first call when the second begins.
FirstOutcome(restarted) ==
    [kind |-> "second", restarted |-> restarted, cache |-> prev.cache,
     result |-> result, attempted |-> attempted, verdicts |-> verdicts,
     secret |-> JWT_SECRET, at |-> prev.at]

\* The first call has returned and the same credential is presented again to
\* the same process (auth.py:132).
Again ==
    /\ pc = "done"
    /\ prev.kind = "first"
    /\ prev' = FirstOutcome(FALSE)
    /\ pc' = "jwks"
    /\ attempted' = << >>
    /\ verdicts' = << >>
    /\ fetches' = << >>
    /\ lookups' = << >>
    /\ log' = << >>
    /\ result' = NoResult
    /\ UNCHANGED << token, jwkCache >>
    /\ UNCHANGED envVars
    /\ UNCHANGED << req, resp, tasks, storeLog >>
    /\ UNCHANGED << DATABASE_READY, chat, tasks3, nextId, lastCall >>
    /\ UNCHANGED lateVars

\* The process is started afresh with another value of JWT_SECRET
\* (auth.py:26; the key-set client of auth.py:32 starts with an empty cache)
\* and the same credential is presented to it.
RestartAgain(secret) ==
    /\ pc = "done"
    /\ prev.kind = "first"
    /\ prev.cache = NoCache
    /\ secret # JWT_SECRET
    /\ JWT_SECRET' = secret
    /\ jwkCache' = NoCache
    /\ prev' = FirstOutcome(TRUE)
    /\ pc' = "jwks"
    /\ attempted' = << >>
    /\ verdicts' = << >>
    /\ fetches' = << >>
    /\ lookups' = << >>
    /\ log' = << >>
    /\ result' = NoResult
    /\ UNCHANGED token
    /\ UNCHANGED << tzOffset, remoteKeys, reachable, dbUp, sessions, now >>
    /\ UNCHANGED << req, resp, tasks, storeLog >>
    /\ UNCHANGED << DATABASE_READY, chat, tasks3, nextId, lastCall >>
    /\ UNCHANGED lateVars

\* The second call has returned.
EndPair ==
    /\ pc = "done"
    /\ prev.kind = "second"
    /\ prev' = NoPrev
    /\ pc' = "idle"
    /\ token' = NoToken
    /\ attempted' = << >>
    /\ verdicts' = << >>
    /\ fetches' = << >>
    /\ lookups' = << >>
    /\ log' = << >>
    /\ result' = NoResult
    /\ UNCHANGED jwkCache
    /\ UNCHANGED envVars
    /\ UNCHANGED << req, resp, tasks, storeLog >>
    /\ UNCHANGED << DATABASE_READY, chat, tasks3, nextId, lastCall >>
    /\ UNCHANGED lateVars

\* No pair of calls is under way.
Quiet == pc = "idle"

\* The clock advances between pairs or between the two calls of a pair.
TickBetweenCalls ==
    /\ Quiet \/ (pc = "done" /\ prev.kind = "first")
    /\ Tick

RotateKeysQuiet(ks) == Quiet /\ RotateKeys(ks)

CacheLapseQuiet == Quiet /\ CacheLapse

EndpointFlipQuiet == Quiet /\ EndpointFlip

StoreFlipQuiet == Quiet /\ StoreFlip

NextTwice ==
    \/ \E tok \in Tokens : FirstCall(tok)
    \/ JwksBlock
    \/ SecretBlock
    \/ SessionLookup
    \/ Again
    \/ \E secret \in { "", "s1" } : RestartAgain(secret)
    \/ EndPair
    \/ TickBetweenCalls
    \/ \E ks \in KeySets : RotateKeysQuiet(ks)
    \/ CacheLapseQuiet
    \/ EndpointFlipQuiet
    \/ StoreFlipQuiet

SpecTwice == Init /\ [][NextTwice]_vars

\* current_user.get("sub") (api/auth.py:17, todos.py:24)
Subject(claims) == IF "sub" \in DOMAIN claims THEN claims.sub ELSE "None"

\* The credential that was accepted has not reached its expiry at time t:
\* the exp claim of a signed token, the expiresAt of the session row.
BeforeExpiry(tok, res, t) ==
    IF res.by = "session"
    THEN \A r \in sessions :
            r.token = RawToken(tok) => t < SessionExpiry(r.expiresAt)
    ELSE "exp" \in DOMAIN res.claims => t < res.claims.exp

\* The second call of a pair made to one process has returned.
SecondDone == pc = "done" /\ prev.kind = "second" /\ ~prev.restarted

\* C14: when a credential that verify_token accepted is presented again,
\* the key set, the configuration, the availability of the endpoint and of
\* the store and the session table being what they were and the credential
\* not having reached its expiry, the second call returns claims with the
\* same subject by the same verifier; if the clock has not moved, it
\* returns the very same value. Nothing the first call left in the key
\* cache changes it.
C14_SameOutcomeTwice ==
    ( /\ SecondDone
      /\ prev.result.kind = "claims"
      /\ BeforeExpiry(token, prev.result, now) )
    => /\ result.kind = "claims"
       /\ result.by = prev.result.by
       /\ Subject(result.claims) = Subject(prev.result.claims)
       /\ prev.at = now => result = prev.result

\* A token accepted twice by the asymmetric block, the first call having
\* fetched the key set and the second, later on the clock, having found it
\* in the cache.
C14_Witness ==
    /\ SecondDone
    /\ prev.result.kind = "claims"
    /\ prev.result.by = "jwks"
    /\ prev.cache = NoCache
    /\ fetches = << >>
    /\ prev.at < now
    /\ result.kind = "claims"

\* The second call of a pair has returned, the process having been started
\* afresh with the other value of JWT_SECRET in between, at the same time on
\* the clock.
ReconfiguredDone ==
    /\ pc = "done"
    /\ prev.kind = "second"
    /\ prev.restarted
    /\ prev.at = now

\* The outcome of the call made with JWT_SECRET unset, and with it set.
WithSecretUnset ==
    IF prev.secret = ""
    THEN [result |-> prev.result, attempted |-> prev.attempted,
          verdicts |-> prev.verdicts]
    ELSE [result |-> result, attempted |-> attempted, verdicts |-> verdicts]

WithSecretSet ==
    IF prev.secret = ""
    THEN [result |-> result, attempted |-> attempted, verdicts |-> verdicts]
    ELSE [result |-> prev.result, attempted |-> prev.attempted,
          verdicts |-> prev.verdicts]

\* C16: for the same key set, endpoint, store and session table, a
\* credential accepted with JWT_SECRET unset is accepted with it set; the
\* asymmetric block gives the same verdict on it in both configurations,
\* and so does the session lookup whenever both calls come to it.
C16_UnsetSecretOnlyDegrades ==
    ReconfiguredDone =>
        LET u == WithSecretUnset
            c == WithSecretSet
        IN  /\ u.result.kind = "claims" => c.result.kind = "claims"
            /\ u.attempted[1] = "jwks" /\ c.attempted[1] = "jwks"
            /\ u.verdicts[1] = c.verdicts[1]
            /\ u.verdicts[1] = "" => c.result = u.result
            /\ ( Last(u.attempted) = "session" /\ Last(c.attempted) = "session" )
               => /\ Last(u.verdicts) = Last(c.verdicts)
                  /\ u.result = c.result

\* A session token accepted with the secret unset and, after the restart
\* with the secret set, accepted by the session lookup again once the HS256
\* decode had turned it down.
C16_Witness ==
    /\ ReconfiguredDone
    /\ prev.secret = ""
    /\ prev.result.kind = "claims"
    /\ prev.result.by = "session"
    /\ attempted = << "jwks", "hs256", "session" >>
    /\ verdicts[2] # ""
    /\ result.kind = "claims"

-----------------------------------------------------------------------------
(* crud.py of phase 2: the task table and the functions over it *)

UserIds == { "u1", "u3" }
TaskIds == { "t1", "t2" }
Titles == { "a", "b" }

HTTP_201_CREATED == 201
HTTP_204_NO_CONTENT == 204
HTTP_403_FORBIDDEN == 403
HTTP_404_NOT_FOUND == 404

\* models.py:9-19: a row of Task.
TaskRow(id, owner_id, title, completed) ==
    [id |-> id, owner_id |-> owner_id, title |-> title, completed |-> completed]

\* A request body with no field set.
NoBody == << >>

\* models.py:22-23: the body of a create request.
TaskCreate(title) == [title |-> title, completed |-> FALSE]

\* models.py:26-29 with model_dump(exclude_unset=True): the fields a body
\* sets.
UpdateBodies == { [title |-> "b"], [completed |-> TRUE] }

\* crud.py:27-40: the rows with this id and this owner (at most one).
crud_get_task_by_id(tbl, task_id, owner_id) ==
    { r \in tbl : r.id = task_id /\ r.owner_id = owner_id }

\* crud.py:43-53, with the default offset and limit.
crud_get_tasks_by_owner(tbl, owner_id) ==
    { r \in tbl : r.owner_id = owner_id }

\* crud.py:12-24: the row added under a fresh id.
crud_create_task(tbl, id, task, owner_id) ==
    LET row == TaskRow(id, owner_id, task.title, task.completed)
    IN  [task |-> { row }, table |-> tbl \cup { row }]

\* crud.py:69: the row with the fields of data written over its own.
sqlmodel_update(row, data) ==
    [f \in DOMAIN row |-> IF f \in DOMAIN data THEN data[f] ELSE row[f]]

\* crud.py:56-78
crud_update_task(tbl, task_id, data, owner_id) ==
    LET found == crud_get_task_by_id(tbl, task_id, owner_id)
    IN  IF found = {} THEN [task |-> {}, table |-> tbl]
        ELSE LET row == CHOOSE r \in found : TRUE
                 new == sqlmodel_update(row, data)
             IN  [task |-> { new }, table |-> (tbl \ { row }) \cup { new }]

\* crud.py:81-95
crud_delete_task(tbl, task_id, owner_id) ==
    LET found == crud_get_task_by_id(tbl, task_id, owner_id)
    IN  IF found = {} THEN [ok |-> FALSE, table |-> tbl]
        ELSE [ok |-> TRUE, table |-> tbl \ found]

\* One call of a crud function, as the request's log keeps it.
StoreOp(fn, owner_id, task_id) ==
    [fn |-> fn, owner_id |-> owner_id, task_id |-> task_id]

-----------------------------------------------------------------------------
(* get_current_user (auth.py:117-132) and the routes of todos.py *)

\* What HTTPBearer(auto_error=False) hands over (auth.py:23): None, or the
\* bearer credentials of the Authorization header.
NoCredentials == [kind |-> "none"]
Bearer(t) == [kind |-> "bearer", credentials |-> t]

\* The credentials the routes are called with: a signed token of u1, one
\* without subject, the session token of u3 and an unknown session token.
RouteTokens ==
    { Jwt([alg |-> "EdDSA", kid |-> "k1"], BaseClaims(Far), "k1"),
      Jwt([alg |-> "EdDSA", kid |-> "k1"],
          [aud |-> API_AUDIENCE, iss |-> BETTER_AUTH_URL, exp |-> Far], "k1"),
      << Raw("v3") >>,
      << Raw("v9") >> }

Credentials == { NoCredentials } \cup { Bearer(t) : t \in RouteTokens }

\* auth.py:122-124: the token of the credentials, None without any.
BearerToken(c) ==
    IF c.kind = "bearer" /\ c.credentials # NoToken THEN c.credentials
    ELSE NoToken

\* A test that lets an absent token through.
MissingToken_NeverMissing(tok) == FALSE

\* auth.py:126
MissingToken(tok) == tok = NoToken

\* An ownership test that lets every caller through.
Forbidden_NeverForbids(claims, user_id) == FALSE

\* todos.py:24-25, 45-46, 66-67, 94-95, 121-122, 146-147
Forbidden(claims, user_id) == Subject(claims) # user_id

HttpRequest(op, user_id, task_id, body, c) ==
    [op |-> op, user_id |-> user_id, task_id |-> task_id, body |-> body,
     credentials |-> c]

\* Well-formed requests to the six routes.
Requests ==
    { HttpRequest("get_user_tasks", u, "None", NoBody, c) :
        u \in UserIds, c \in Credentials }
    \cup { HttpRequest("create_user_task", u, "None", TaskCreate("a"), c) :
        u \in UserIds, c \in Credentials }
    \cup { HttpRequest(op, u, t, NoBody, c) :
        op \in { "get_user_task", "delete_user_task", "toggle_task_completion" },
        u \in UserIds, t \in TaskIds, c \in Credentials }
    \cup { HttpRequest("update_user_task", u, t, b, c) :
        u \in UserIds, t \in TaskIds, b \in UpdateBodies, c \in Credentials }

\* An HTTPException as FastAPI answers it.
HttpError(status, detail) == [status |-> status, detail |-> detail]

\* A response carrying rows of the task table.
HttpOk(status, body) == [status |-> status, body |-> body]

\* An exception no handler caught.
ServerError == HttpError(500, "Internal Server Error")

\* The ids uuid4 can still give a new row (models.py:16).
FreeIds == TaskIds \ { r.id : r \in tasks }

\* A request arrives at one of the routes (a create request only while an id
\* is left for its row).
Receive(r) ==
    /\ pc = "idle"
    /\ req = NoReq
    /\ r.op = "create_user_task" => FreeIds # {}
    /\ req' = r
    /\ pc' = "auth"
    /\ UNCHANGED << token, attempted, verdicts, fetches, lookups, log, result >>
    /\ UNCHANGED << prev, resp, tasks, storeLog >>
    /\ UNCHANGED << DATABASE_READY, chat, tasks3, nextId, lastCall >>
    /\ UNCHANGED lateVars
    /\ UNCHANGED jwkCache
    /\ UNCHANGED envVars

\* auth.py:117-132
get_current_user ==
    /\ pc = "auth"
    /\ LET tok == BearerToken(req.credentials)
       IN  IF MissingToken(tok)
           THEN /\ resp' = HttpError(HTTP_401_UNAUTHORIZED,
                           "Not authenticated: Missing Authorization header")
                /\ pc' = "sent"
                /\ token' = token
           ELSE /\ resp' = resp
                /\ pc' = "jwks"
                /\ token' = tok
    /\ UNCHANGED << attempted, verdicts, fetches, lookups, log, result >>
    /\ UNCHANGED << prev, req, tasks, storeLog >>
    /\ UNCHANGED << DATABASE_READY, chat, tasks3, nextId, lastCall >>
    /\ UNCHANGED lateVars
    /\ UNCHANGED jwkCache
    /\ UNCHANGED envVars

\* verify_token raised: the dependency's exception is the response and the
\* route's body is not run.
AuthRejected ==
    /\ pc = "done"
    /\ req # NoReq
    /\ result.kind # "claims"
    /\ resp' = IF result.kind = "http"
               THEN HttpError(result.status, result.detail)
               ELSE ServerError
    /\ pc' = "sent"
    /\ UNCHANGED << token, attempted, verdicts, fetches, lookups, log, result >>
    /\ UNCHANGED << prev, req, tasks, storeLog >>
    /\ UNCHANGED << DATABASE_READY, chat, tasks3, nextId, lastCall >>
    /\ UNCHANGED lateVars
    /\ UNCHANGED jwkCache
    /\ UNCHANGED envVars

\* The body of a route is entered with the claims verify_token returned.
Entered(op) ==
    /\ pc = "done"
    /\ req.op = op
    /\ result.kind = "claims"

\* The body of a route ends: its response, the task table it leaves and
\* the crud calls it made.
Finish(r, tbl, ops) ==
    /\ resp' = r
    /\ tasks' = tbl
    /\ storeLog' = storeLog \o ops
    /\ pc' = "sent"
    /\ UNCHANGED << token, attempted, verdicts, fetches, lookups, log, result >>
    /\ UNCHANGED << prev, req >>
    /\ UNCHANGED << DATABASE_READY, chat, tasks3, nextId, lastCall >>
    /\ UNCHANGED lateVars
    /\ UNCHANGED jwkCache
    /\ UNCHANGED envVars

\* todos.py:13-32
get_user_tasks ==
    /\ Entered("get_user_tasks")
    /\ LET ops == << StoreOp("get_tasks_by_owner", req.user_id, "None") >>
       IN  IF Forbidden(result.claims, req.user_id)
           THEN Finish(HttpError(HTTP_403_FORBIDDEN,
                                 "You can only access your own tasks"),
                       tasks, << >>)
           ELSE IF ~dbUp THEN Finish(ServerError, tasks, ops)
           ELSE Finish(HttpOk(200, crud_get_tasks_by_owner(tasks, req.user_id)),
                       tasks, ops)

\* todos.py:35-53
create_user_task ==
    /\ Entered("create_user_task")
    /\ LET ops == << StoreOp("create_task", req.user_id, "None") >>
       IN  IF Forbidden(result.claims, req.user_id)
           THEN Finish(HttpError(HTTP_403_FORBIDDEN,
                                 "You can only create tasks for yourself"),
                       tasks, << >>)
           ELSE IF ~dbUp THEN Finish(ServerError, tasks, ops)
           ELSE \E id \in FreeIds :
                   LET c == crud_create_task(tasks, id, req.body, req.user_id)
                   IN  Finish(HttpOk(HTTP_201_CREATED, c.task), c.table, ops)

\* todos.py:56-80
get_user_task ==
    /\ Entered("get_user_task")
    /\ LET ops == << StoreOp("get_task_by_id", req.user_id, req.task_id) >>
           task == crud_get_task_by_id(tasks, req.task_id, req.user_id)
       IN  IF Forbidden(result.claims, req.user_id)
           THEN Finish(HttpError(HTTP_403_FORBIDDEN, "Access denied"),
                       tasks, << >>)
           ELSE IF ~dbUp THEN Finish(ServerError, tasks, ops)
           ELSE IF task = {}
           THEN Finish(HttpError(HTTP_404_NOT_FOUND, "Task not found"),
                       tasks, ops)
           ELSE Finish(HttpOk(200, task), tasks, ops)

\* todos.py:83-108
update_user_task ==
    /\ Entered("update_user_task")
    /\ LET ops == << StoreOp("update_task", req.user_id, req.task_id) >>
           u == crud_update_task(tasks, req.task_id, req.body, req.user_id)
       IN  IF Forbidden(result.claims, req.user_id)
           THEN Finish(HttpError(HTTP_403_FORBIDDEN, "Access denied"),
                       tasks, << >>)
           ELSE IF ~dbUp THEN Finish(ServerError, tasks, ops)
           ELSE IF u.task = {}
           THEN Finish(HttpError(HTTP_404_NOT_FOUND, "Task not found"),
                       tasks, ops)
           ELSE Finish(HttpOk(200, u.task), u.table, ops)

\* The delete route as it would be if the row were deleted before the
\* caller is compared with the path.
delete_user_task_DeletesFirst ==
    /\ Entered("delete_user_task")
    /\ LET ops == << StoreOp("delete_task", req.user_id, req.task_id) >>
           d == crud_delete_task(tasks, req.task_id, req.user_id)
       IN  IF ~dbUp THEN Finish(ServerError, tasks, ops)
           ELSE IF Forbidden(result.claims, req.user_id)
           THEN Finish(HttpError(HTTP_403_FORBIDDEN, "Access denied"),
                       d.table, ops)
           ELSE IF ~d.ok
           THEN Finish(HttpError(HTTP_404_NOT_FOUND, "Task not found"),
                       tasks, ops)
           ELSE Finish(HttpOk(HTTP_204_NO_CONTENT, {}), d.table, ops)

\* todos.py:111-133
delete_user_task ==
    /\ Entered("delete_user_task")
    /\ LET ops == << StoreOp("delete_task", req.user_id, req.task_id) >>
           d == crud_delete_task(tasks, req.task_id, req.user_id)
       IN  IF Forbidden(result.claims, req.user_id)
           THEN Finish(HttpError(HTTP_403_FORBIDDEN, "Access denied"),
                       tasks, << >>)
           ELSE IF ~dbUp THEN Finish(ServerError, tasks, ops)
           ELSE IF ~d.ok
           THEN Finish(HttpError(HTTP_404_NOT_FOUND, "Task not found"),
                       tasks, ops)
           ELSE Finish(HttpOk(HTTP_204_NO_CONTENT, {}), d.table, ops)

\* todos.py:136-175
toggle_task_completion ==
    /\ Entered("toggle_task_completion")
    /\ LET get == << StoreOp("get_task_by_id", req.user_id, req.task_id) >>
           upd == << StoreOp("update_task", req.user_id, req.task_id) >>
           current_task == crud_get_task_by_id(tasks, req.task_id, req.user_id)
       IN  IF Forbidden(result.claims, req.user_id)
           THEN Finish(HttpError(HTTP_403_FORBIDDEN, "Access denied"),
                       tasks, << >>)
           ELSE IF ~dbUp THEN Finish(ServerError, tasks, get)
           ELSE IF current_task = {}
           THEN Finish(HttpError(HTTP_404_NOT_FOUND, "Task not found"),
                       tasks, get)
           ELSE LET row == CHOOSE r \in current_task : TRUE
                    u == crud_update_task(tasks, req.task_id,
                                          [completed |-> ~row.completed],
                                          req.user_id)
                IN  IF u.task = {}
                    THEN Finish(HttpError(HTTP_404_NOT_FOUND, "Task not found"),
                                tasks, get \o upd)
                    ELSE Finish(HttpOk(200, u.task), u.table, get \o upd)

\* The response has gone out; the next request starts from a clean slate.
Deliver ==
    /\ pc = "sent"
    /\ pc' = "idle"
    /\ req' = NoReq
    /\ resp' = NoResp
    /\ storeLog' = << >>
    /\ token' = NoToken
    /\ attempted' = << >>
    /\ verdicts' = << >>
    /\ fetches' = << >>
    /\ lookups' = << >>
    /\ log' = << >>
    /\ result' = NoResult
    /\ UNCHANGED << prev, tasks >>
    /\ UNCHANGED << DATABASE_READY, chat, tasks3, nextId, lastCall >>
    /\ UNCHANGED lateVars
    /\ UNCHANGED jwkCache
    /\ UNCHANGED envVars

\* The database goes down or comes back while no step of verify_token is
\* under way.
StoreFlipBetweenSteps ==
    /\ pc \in { "idle", "done" }
    /\ StoreFlip

\* The process as deployed with the shared secret set.
InitRoutes ==
    /\ Init
    /\ JWT_SECRET = "s1"
    /\ tzOffset = 0

NextRoutes ==
    \/ \E r \in Requests : Receive(r)
    \/ get_current_user
    \/ JwksBlock
    \/ SecretBlock
    \/ SessionLookup
    \/ AuthRejected
    \/ get_user_tasks
    \/ create_user_task
    \/ get_user_task
    \/ update_user_task
    \/ delete_user_task
    \/ toggle_task_completion
    \/ Deliver
    \/ StoreFlipBetweenSteps

SpecRoutes == InitRoutes /\ [][NextRoutes]_vars

\* C11: a request without bearer credentials is answered 401 "Not
\* authenticated: Missing Authorization header" by get_current_user itself:
\* verify_token is not entered, so no block is attempted, no key is looked
\* up or fetched, no session is looked up and no task-table function is
\* called.
C11_MissingCredentialNoVerification ==
    ( req # NoReq /\ req.credentials = NoCredentials ) =>
        /\ pc \in { "auth", "sent" }
        /\ token = NoToken
        /\ attempted = << >>
        /\ verdicts = << >>
        /\ fetches = << >>
        /\ lookups = << >>
        /\ result = NoResult
        /\ storeLog = << >>
        /\ pc = "sent" =>
              resp = HttpError(401, "Not authenticated: Missing Authorization header")

\* A request without credentials has been answered.
C11_Witness ==
    /\ pc = "sent"
    /\ req.credentials = NoCredentials
    /\ resp.status = 401

\* The request in flight passed verify_token.
Authenticated == result.kind = "claims"

\* C12: on every task route a request is answered 403 exactly when the
\* caller is authenticated and the sub of the verified claims differs from
\* the user_id of the path, and then no task-table function has been
\* called; it is answered 401 exactly when authentication failed; every
\* task-table call made for a request is made for the user_id of the path,
\* which is then also the verified sub.
C12_OwnershipFromVerifiedSub ==
    pc = "sent" =>
        /\ resp.status = 403 <=>
              ( Authenticated /\ Subject(result.claims) # req.user_id )
        /\ resp.status = 403 => storeLog = << >>
        /\ resp.status = 401 <=> ~Authenticated
        /\ \A i \in 1..Len(storeLog) :
              /\ storeLog[i].owner_id = req.user_id
              /\ Authenticated
              /\ storeLog[i].owner_id = Subject(result.claims)

\* The authenticated u1 asks for the deletion of a task of u3 under the
\* path of u3 and is answered 403.
C12_Witness ==
    /\ pc = "sent"
    /\ req.op = "delete_user_task"
    /\ req.user_id = "u3"
    /\ Authenticated
    /\ Subject(result.claims) = "u1"
    /\ \E r \in tasks : r.id = req.task_id /\ r.owner_id = "u3"
    /\ resp.status = 403

-----------------------------------------------------------------------------
(* Phase 3: crud.py over the task table of models.py *)

\* The table gives ids 1..MaxTaskId.
MaxTaskId == 2

Users3 == { "u1", "u2" }

\* models.py:64-84: a row of Task; description "None" is NULL.
Task3(id, user_id, title, description, completed) ==
    [id |-> id, user_id |-> user_id, title |-> title,
     description |-> description, completed |-> completed]

\* A select that leaves the user out of its where clause.
crud3_get_task_by_id_AnyUser(tbl, task_id, user_id) ==
    { r \in tbl : r.id = task_id }

\* crud.py:26-35: the rows with this id and this user (at most one).
crud3_get_task_by_id(tbl, task_id, user_id) ==
    { r \in tbl : r.id = task_id /\ r.user_id = user_id }

\* crud.py:37-46, with the default offset and limit.
crud3_get_tasks_by_user(tbl, user_id) ==
    { r \in tbl : r.user_id = user_id }

\* models.py:65, 82: the columns declared without Optional are NOT NULL.
NotNullViolated(row) == row.title = "None" \/ row.user_id = "None"

\* crud.py:11-24: the row added under the table's next id.
crud3_create_task(tbl, id, task, user_id) ==
    LET row == Task3(id, user_id, task.title, task.description, task.completed)
    IN  [err |-> "", task |-> { row }, table |-> tbl \cup { row }]

\* crud.py:48-69: the fields of data written over the row's own, committed;
\* a commit the database refuses is rolled back and raised.
crud3_update_task(tbl, task_id, data, user_id) ==
    LET found == crud3_get_task_by_id(tbl, task_id, user_id)
    IN  IF found = {} THEN [err |-> "", task |-> {}, table |-> tbl]
        ELSE LET row == CHOOSE r \in found : TRUE
                 new == sqlmodel_update(row, data)
             IN  IF NotNullViolated(new)
                 THEN [err |-> "IntegrityError", task |-> {}, table |-> tbl]
                 ELSE [err |-> "", task |-> { new },
                       table |-> (tbl \ { row }) \cup { new }]

\* crud.py:71-84
crud3_delete_task(tbl, task_id, user_id) ==
    LET found == crud3_get_task_by_id(tbl, task_id, user_id)
    IN  IF found = {} THEN [ok |-> FALSE, table |-> tbl]
        ELSE [ok |-> TRUE, table |-> tbl \ found]

-----------------------------------------------------------------------------
(* The tools of mcp_server_tasks.py and the chat endpoint of chat_simple.py *)

\* The text a tool returns, with the id or the lines it carries.
ToolText(text) == [text |-> text]

\* mcp_server_tasks.py:50, 79, 124, 153, 186
DatabaseError == ToolText("Database error")

\* mcp_server_tasks.py:130, 159, 192
NotFoundOrDenied == ToolText("not found or access denied")

\* mcp_server_tasks.py:99-102: the line list_tasks prints for a row.
ListLine(t) ==
    [id |-> t.id, icon |-> IF t.completed THEN "[x]" ELSE "[ ]",
     title |-> t.title,
     desc |-> IF t.description # "None" THEN t.description ELSE ""]

\* A tool call as it is remembered: the tool, the user and task it was
\* called for, its other arguments, the table before it and what it
\* returned.
ToolCall(tool, user_id, task_id, args, ret) ==
    [tool |-> tool, user_id |-> user_id, task_id |-> task_id, args |-> args,
     before |-> tasks3, ret |-> ret]

\* The agent is running for a chat request and calls the tools with the
\* user id of its instructions (agent_simple.py:62-66).
AgentRunning == chat.agent = "running"

\* What a tool call leaves unchanged.
ToolFrame ==
    /\ UNCHANGED << DATABASE_READY, chat >>
    /\ UNCHANGED << prev, req, resp, tasks, storeLog >>
    /\ UNCHANGED lateVars
    /\ UNCHANGED callVars
    /\ UNCHANGED jwkCache
    /\ UNCHANGED envVars

\* mcp_server_tasks.py:36-63
add_task(title, description) ==
    /\ AgentRunning
    /\ nextId <= MaxTaskId
    /\ LET user_id == chat.user_id
           args == [title |-> title, description |-> description]
           task_data == [title |-> title, description |-> description,
                         completed |-> FALSE]
           c == crud3_create_task(tasks3, nextId, task_data, user_id)
       IN  IF ~DATABASE_READY
           THEN /\ lastCall' = ToolCall("add_task", user_id, 0, args, DatabaseError)
                /\ UNCHANGED << tasks3, nextId >>
           ELSE /\ tasks3' = c.table
                /\ nextId' = nextId + 1
                /\ lastCall' = ToolCall("add_task", user_id, nextId, args,
                       [text |-> "Task created successfully", id |-> nextId])
    /\ ToolFrame

\* mcp_server_tasks.py:66-108
list_tasks(status) ==
    /\ AgentRunning
    /\ LET user_id == chat.user_id
           all == crud3_get_tasks_by_user(tasks3, user_id)
           found == IF status = "completed" THEN { t \in all : t.completed }
                    ELSE IF status = "active" THEN { t \in all : ~t.completed }
                    ELSE all
           ret == IF ~DATABASE_READY THEN DatabaseError
                  ELSE IF found = {} THEN ToolText("No tasks found.")
                  ELSE [text |-> "tasks", lines |-> { ListLine(t) : t \in found }]
       IN  lastCall' = ToolCall("list_tasks", user_id, 0, [status |-> status], ret)
    /\ UNCHANGED << tasks3, nextId >>
    /\ ToolFrame

\* mcp_server_tasks.py:111-137
complete_task(task_id) ==
    /\ AgentRunning
    /\ LET user_id == chat.user_id
           task == crud3_get_task_by_id(tasks3, task_id, user_id)
           update_data == [completed |-> TRUE]
           u == crud3_update_task(tasks3, task_id, update_data, user_id)
       IN  IF ~DATABASE_READY
           THEN /\ lastCall' = ToolCall("complete_task", user_id, task_id, << >>,
                                        DatabaseError)
                /\ tasks3' = tasks3
           ELSE IF task = {}
           THEN /\ lastCall' = ToolCall("complete_task", user_id, task_id, << >>,
                                        NotFoundOrDenied)
                /\ tasks3' = tasks3
           ELSE /\ lastCall' = ToolCall("complete_task", user_id, task_id, << >>,
                       IF u.err # "" THEN ToolText("Error completing task")
                       ELSE ToolText("marked as completed"))
                /\ tasks3' = u.table
    /\ UNCHANGED nextId
    /\ ToolFrame

\* mcp_server_tasks.py:140-163
delete_task(task_id) ==
    /\ AgentRunning
    /\ LET user_id == chat.user_id
           d == crud3_delete_task(tasks3, task_id, user_id)
       IN  IF ~DATABASE_READY
           THEN /\ lastCall' = ToolCall("delete_task", user_id, task_id, << >>,
                                        DatabaseError)
                /\ tasks3' = tasks3
           ELSE /\ lastCall' = ToolCall("delete_task", user_id, task_id, << >>,
                       IF d.ok THEN ToolText("deleted successfully")
                       ELSE NotFoundOrDenied)
                /\ tasks3' = d.table
    /\ UNCHANGED nextId
    /\ ToolFrame

\* mcp_server_tasks.py:166-199; "None" for an argument the caller left out.
update_task(task_id, title, description) ==
    /\ AgentRunning
    /\ LET user_id == chat.user_id
           args == [title |-> title, description |-> description]
           task == crud3_get_task_by_id(tasks3, task_id, user_id)
           \* TaskUpdate(title=title, description=description): both fields
           \* are set, so model_dump(exclude_unset=True) keeps both.
           update_data == [title |-> title, description |-> description]
           u == crud3_update_task(tasks3, task_id, update_data, user_id)
       IN  IF ~DATABASE_READY
           THEN /\ lastCall' = ToolCall("update_task", user_id, task_id, args,
                                        DatabaseError)
                /\ tasks3' = tasks3
           ELSE IF task = {}
           THEN /\ lastCall' = ToolCall("update_task", user_id, task_id, args,
                                        NotFoundOrDenied)
                /\ tasks3' = tasks3
           ELSE /\ lastCall' = ToolCall("update_task", user_id, task_id, args,
                       IF u.err # "" THEN ToolText("Error updating task")
                       ELSE ToolText("updated successfully"))
                /\ tasks3' = u.table
    /\ UNCHANGED nextId
    /\ ToolFrame

\* chat_simple.py:12-15 with the Authorization header of the request: none,
\* or a signed token of u1.
ChatRequests ==
    { [user_id |-> u, credentials |-> c] :
        u \in Users3,
        c \in { NoCredentials,
                Bearer(Jwt([alg |-> "EdDSA", kid |-> "k1"], BaseClaims(Far), "k1")) } }

\* What a chat step leaves unchanged.
ChatFrame ==
    /\ UNCHANGED << DATABASE_READY, tasks3, nextId >>
    /\ UNCHANGED << prev, req, resp, tasks, storeLog >>
    /\ UNCHANGED lateVars
    /\ UNCHANGED callVars
    /\ UNCHANGED jwkCache
    /\ UNCHANGED envVars

\* chat_simple.py:20-30: the route takes the request as it comes and starts
\* the agent for the user_id of its body.
chat_simple(request) ==
    /\ chat = NoChat
    /\ chat' = [agent |-> "running", user_id |-> request.user_id,
                credentials |-> request.credentials, status |-> 0]
    /\ lastCall' = NoCall
    /\ ChatFrame

\* chat_simple.py:32: the agent's answer is returned.
chat_simple_return ==
    /\ AgentRunning
    /\ chat' = [chat EXCEPT !.agent = "done", !.status = 200]
    /\ UNCHANGED lastCall
    /\ ChatFrame

\* The response has gone out.
ChatDeliver ==
    /\ chat.agent = "done"
    /\ chat' = NoChat
    /\ lastCall' = NoCall
    /\ ChatFrame

\* mcp_server_tasks.py:13-20: the import of the database modules raised.
ImportFailed ==
    /\ chat = NoChat
    /\ tasks3 = {}
    /\ nextId = 1
    /\ DATABASE_READY
    /\ DATABASE_READY' = FALSE
    /\ UNCHANGED << chat, tasks3, nextId, lastCall >>
    /\ UNCHANGED << prev, req, resp, tasks, storeLog >>
    /\ UNCHANGED lateVars
    /\ UNCHANGED callVars
    /\ UNCHANGED jwkCache
    /\ UNCHANGED envVars

TaskIds3 == 1..MaxTaskId

\* The arguments update_task is called with: a title, a description, or
\* both ("None" for the one left out).
UpdateArgs ==
    { [title |-> "b", description |-> "None"],
      [title |-> "None", description |-> "d"],
      [title |-> "b", description |-> "d"] }

NextMcp ==
    \/ \E request \in ChatRequests : chat_simple(request)
    \/ \E description \in { "None", "d" } : add_task("a", description)
    \/ \E status \in { "None", "completed", "active" } : list_tasks(status)
    \/ \E task_id \in TaskIds3 : complete_task(task_id)
    \/ \E task_id \in TaskIds3 : delete_task(task_id)
    \/ \E task_id \in TaskIds3, a \in UpdateArgs :
          update_task(task_id, a.title, a.description)
    \/ chat_simple_return
    \/ ChatDeliver
    \/ ImportFailed

SpecMcp == InitRoutes /\ [][NextMcp]_vars

\* C18: a chat request without bearer credentials is answered 401 or 403,
\* the agent is not run for it and no tool is called for the user_id of its
\* body.
C18_ChatRequiresAuthentication ==
    ( chat # NoChat /\ chat.credentials = NoCredentials ) =>
        /\ chat.agent = "done"
        /\ chat.status \in { 401, 403 }
        /\ lastCall = NoCall

\* The rows of a table that belong to other users than this one.
RowsOfOthers(tbl, user_id) == { r \in tbl : r.user_id # user_id }

Supplied(args) == { f \in DOMAIN args : args[f] # "None" }

\* C20: an update_task call that supplies only one of title and
\* description, for a task of the calling user, returns "updated
\* successfully" and leaves the row as it was but for the supplied field,
\* which holds the supplied value.
C20_UpdateChangesOnlySuppliedField ==
    ( /\ lastCall.tool = "update_task"
      /\ DATABASE_READY
      /\ Cardinality(Supplied(lastCall.args)) = 1
      /\ crud3_get_task_by_id(lastCall.before, lastCall.task_id,
                              lastCall.user_id) # {} )
    => LET old == CHOOSE r \in lastCall.before :
                     r.id = lastCall.task_id /\ r.user_id = lastCall.user_id
           f == CHOOSE g \in Supplied(lastCall.args) : TRUE
       IN  /\ lastCall.ret = ToolText("updated successfully")
           /\ tasks3 = (lastCall.before \ { old })
                          \cup { [old EXCEPT ![f] = lastCall.args[f]] }


-----------------------------------------------------------------------------
(* Phase 1: the console application's TaskStore (phase-1/src/store.py) *)

\* the ids create_task may give out before the exploration stops
MaxStoreId == 2

\* A str is the sequence of its characters; these are the characters used.
Chars == { " ", "a", "b" }

\* str.lstrip(): the leading whitespace is dropped.
RECURSIVE lstrip(_)
lstrip(s) ==
    IF s # << >> /\ Head(s) = " " THEN lstrip(Tail(s)) ELSE s

\* str.rstrip(): the trailing whitespace is dropped.
RECURSIVE rstrip(_)
rstrip(s) ==
    IF s # << >> /\ s[Len(s)] = " "
    THEN rstrip(SubSeq(s, 1, Len(s) - 1))
    ELSE s

\* str.strip()
strip(s) == rstrip(lstrip(s))

\* store.py:58-60: _save writes next_id and the tasks to the data file.
\* (A failed write is printed and swallowed, store.py:61-62; nothing of the
\* process reads the file back after construction.)
save(ts, nid) == [written |-> TRUE, next_id |-> nid, tasks |-> ts]

\* Position in _tasks of the first task with this id, 0 when there is none:
\* the loops of store.py:143-145 and 215-216.
IndexOfTask(ts, task_id) ==
    IF \E i \in 1..Len(ts) : ts[i].id = task_id
    THEN CHOOSE i \in 1..Len(ts) :
            /\ ts[i].id = task_id
            /\ \A j \in 1..(i - 1) : ts[j].id # task_id
    ELSE 0

\* The record of a TaskStore call: what it was given, whether it raised
\* ValueError, and the message raised or the value returned.
StoreCall(op, args, raised, ret) ==
    [op |-> op, args |-> args, raised |-> raised, ret |-> ret]

\* What a task says: its fields without the time of its last update.
Content(task) ==
    [id |-> task.id, title |-> task.title, description |-> task.description,
     status |-> task.status]

\* What a TaskStore call leaves unchanged.
StoreFrame ==
    /\ UNCHANGED << prev, req, resp, tasks, storeLog >>
    /\ UNCHANGED << inflight, origin, other >>
    /\ UNCHANGED << DATABASE_READY, chat, tasks3, nextId, lastCall >>
    /\ UNCHANGED callVars
    /\ UNCHANGED jwkCache
    /\ UNCHANGED envVars

\* A call that raised ValueError before it assigned anything.
RaiseValueError(op, args, message) ==
    /\ lastOp' = StoreCall(op, args, TRUE, message)
    /\ UNCHANGED << store_tasks, next_id, storeFile, assignedIds >>

\* The id as it would be if it were the position the task gets in the list.
NewTaskId_PositionInList == Len(store_tasks) + 1

\* store.py:108: the id of the task being created.
NewTaskId == next_id

\* store.py:104-124  create_task
TaskStore_create_task(title, description) ==
    /\ IF title = << >> \/ strip(title) = << >>
       THEN RaiseValueError("create_task",
                [title |-> title, description |-> description],
                "Title must be provided and not empty")
       ELSE LET task == [id |-> NewTaskId, title |-> strip(title),
                         description |-> description, status |-> FALSE,
                         updated_at |-> now]
            IN  /\ next_id <= MaxStoreId
                /\ store_tasks' = Append(store_tasks, task)
                /\ next_id' = next_id + 1
                /\ storeFile' = save(store_tasks', next_id')
                /\ assignedIds' = Append(assignedIds, task.id)
                /\ lastOp' = StoreCall("create_task",
                        [title |-> title, description |-> description],
                        FALSE, task)
    /\ StoreFrame

\* store.py:130-147  get_task_by_id
TaskStore_get_task_by_id(task_id) ==
    /\ LET i == IndexOfTask(store_tasks, task_id)
       IN  IF i = 0
           THEN RaiseValueError("get_task_by_id", [task_id |-> task_id],
                                "does not exist")
           ELSE /\ lastOp' = StoreCall("get_task_by_id",
                                [task_id |-> task_id], FALSE, store_tasks[i])
                /\ UNCHANGED << store_tasks, next_id, storeFile, assignedIds >>
    /\ StoreFrame

\* An argument left at its default None is a field the call does not carry.
IsNotNone(args, field) == field \in DOMAIN args

\* store.py:179-182: the title given does not survive strip().
TitleIsEmpty(args) ==
    /\ IsNotNone(args, "title")
    /\ strip(args.title) = << >>

\* The assignments as they would be if a field left at None were assigned
\* its default.
Assign_DefaultsOverwrite(task, args, at) ==
    [id |-> task.id,
     title |-> IF IsNotNone(args, "title") THEN strip(args.title)
               ELSE task.title,
     description |-> IF IsNotNone(args, "description") THEN args.description
                     ELSE "",
     status |-> task.status,
     updated_at |-> at]

\* store.py:179-201: the assignments update_task makes to the task.
Assign(task, args, at) ==
    [id |-> task.id,
     title |-> IF IsNotNone(args, "title") THEN strip(args.title)
               ELSE task.title,
     description |-> IF IsNotNone(args, "description") THEN args.description
                     ELSE task.description,
     status |-> task.status,
     updated_at |-> at]

\* update_task as it would be if the description were assigned before the
\* title is looked at.
TaskStore_update_task_AssignsBeforeTitleCheck(task_id, args) ==
    /\ LET i == IndexOfTask(store_tasks, task_id)
           call == [task_id |-> task_id, fields |-> args]
       IN  IF i = 0
           THEN RaiseValueError("update_task", call, "does not exist")
           ELSE IF TitleIsEmpty(args)
           THEN /\ store_tasks' = [store_tasks EXCEPT ![i].description =
                        IF IsNotNone(args, "description")
                        THEN args.description ELSE @]
                /\ lastOp' = StoreCall("update_task", call, TRUE,
                                       "Title cannot be empty")
                /\ UNCHANGED << next_id, storeFile, assignedIds >>
           ELSE /\ store_tasks' = [store_tasks EXCEPT
                                    ![i] = Assign(store_tasks[i], args, now)]
                /\ storeFile' = save(store_tasks', next_id)
                /\ lastOp' = StoreCall("update_task", call, FALSE,
                                       store_tasks'[i])
                /\ UNCHANGED << next_id, assignedIds >>
    /\ StoreFrame

\* store.py:149-203  update_task
TaskStore_update_task(task_id, args) ==
    /\ LET i == IndexOfTask(store_tasks, task_id)
           call == [task_id |-> task_id, fields |-> args]
       IN  IF i = 0
           THEN RaiseValueError("update_task", call, "does not exist")
           ELSE IF TitleIsEmpty(args)
           THEN RaiseValueError("update_task", call, "Title cannot be empty")
           ELSE /\ store_tasks' = [store_tasks EXCEPT
                                    ![i] = Assign(store_tasks[i], args, now)]
                /\ storeFile' = save(store_tasks', next_id)
                /\ lastOp' = StoreCall("update_task", call, FALSE,
                                       store_tasks'[i])
                /\ UNCHANGED << next_id, assignedIds >>
    /\ StoreFrame

\* The assignments as they would be if the task were marked complete.
Toggle_MarksComplete(task, at) ==
    [task EXCEPT !.status = TRUE, !.updated_at = at]

\* store.py:208-209: the assignments toggle_task_status makes to the task.
Toggle(task, at) ==
    [task EXCEPT !.status = ~ task.status, !.updated_at = at]

\* store.py:205-211  toggle_task_status
TaskStore_toggle_task_status(task_id) ==
    /\ LET i == IndexOfTask(store_tasks, task_id)
       IN  IF i = 0
           THEN RaiseValueError("toggle_task_status", [task_id |-> task_id],
                                "does not exist")
           ELSE /\ store_tasks' = [store_tasks EXCEPT
                                    ![i] = Toggle(store_tasks[i], now)]
                /\ storeFile' = save(store_tasks', next_id)
                /\ lastOp' = [op |-> "toggle_task_status",
                              args |-> [task_id |-> task_id],
                              raised |-> FALSE, ret |-> store_tasks'[i],
                              found |-> Content(store_tasks[i])]
                /\ UNCHANGED << next_id, assignedIds >>
    /\ StoreFrame

\* del self._tasks[i]
DeleteAt(ts, i) == SubSeq(ts, 1, i - 1) \o SubSeq(ts, i + 1, Len(ts))

\* store.py:213-221  delete_task
TaskStore_delete_task(task_id) ==
    /\ LET i == IndexOfTask(store_tasks, task_id)
       IN  IF i = 0
           THEN RaiseValueError("delete_task", [task_id |-> task_id],
                                "does not exist")
           ELSE /\ store_tasks' = DeleteAt(store_tasks, i)
                /\ storeFile' = save(store_tasks', next_id)
                /\ lastOp' = StoreCall("delete_task", [task_id |-> task_id],
                                       FALSE, TRUE)
                /\ UNCHANGED << next_id, assignedIds >>
    /\ StoreFrame

\* The calls explored: titles that are empty, blank and padded.
CreateArgs ==
    { [title |-> << >>, description |-> ""],
      [title |-> << " " >>, description |-> "d"],
      [title |-> << " ", "a", " " >>, description |-> "d"] }

\* update_task called with no field at all.
NoFields == << >>

\* A description of "" is not None and is assigned (store.py:185-186).
StoreUpdateArgs ==
    { NoFields,
      [title |-> << "b", " " >>],
      [description |-> ""],
      [title |-> << " " >>, description |-> ""] }

StoreIds == 1..MaxStoreId

\* store.py:33-49: the store is constructed with no data file to load; the
\* console application verifies no token.
InitStore == InitRoutes

NextStore ==
    \/ \E a \in CreateArgs : TaskStore_create_task(a.title, a.description)
    \/ \E id \in StoreIds : TaskStore_get_task_by_id(id)
    \/ \E id \in StoreIds : \E a \in StoreUpdateArgs : TaskStore_update_task(id, a)
    \/ \E id \in StoreIds : TaskStore_toggle_task_status(id)
    \/ \E id \in StoreIds : TaskStore_delete_task(id)
    \/ Tick

SpecStore == InitStore /\ [][NextStore]_vars

-----------------------------------------------------------------------------
(* Properties of the TaskStore *)

\* The store, apart from the record of the last call.
StoreState == << store_tasks, next_id, storeFile, assignedIds >>

\* A TaskStore call was made in this step and it raised ValueError.
CallRaised ==
    /\ lastOp' # lastOp
    /\ lastOp'.raised

\* C21: a TaskStore call that raises ValueError (create_task with an empty
\* or blank title, a call with an id that is not in the store, update_task
\* with an empty or blank title) leaves the task list, every field of every
\* task, the next-id counter and the data file as they were.
C21_RaiseLeavesStoreUnchanged ==
    [][ CallRaised => StoreState' = StoreState ]_vars

\* update_task has refused a blank title that came with a description
\* different from the one the task has.
C21_Witness ==
    /\ lastOp.op = "update_task"
    /\ lastOp.raised
    /\ lastOp.ret = "Title cannot be empty"
    /\ "description" \in DOMAIN lastOp.args.fields
    /\ LET i == IndexOfTask(store_tasks, lastOp.args.task_id)
       IN  /\ i # 0
           /\ store_tasks[i].description # lastOp.args.fields.description

\* A TaskStore call was made in this step and it returned.
CallReturned(op) ==
    /\ lastOp' # lastOp
    /\ lastOp'.op = op
    /\ ~ lastOp'.raised

\* Every task but the one at position i is where and what it was.
OthersUnchanged(i) ==
    /\ Len(store_tasks') = Len(store_tasks)
    /\ \A j \in 1..Len(store_tasks) : j # i => store_tasks'[j] = store_tasks[j]

\* C22: update_task changes exactly the fields passed as non-None arguments
\* (and updated_at): a field passed takes the value passed (the title
\* stripped), and the task's id, its status, every field not passed, every
\* other task and the next-id counter are unchanged.
C22_UpdateChangesOnlyFieldsPassed ==
    [][ CallReturned("update_task") =>
        LET fields == lastOp'.args.fields
            i == IndexOfTask(store_tasks, lastOp'.args.task_id)
        IN  /\ i # 0
            /\ OthersUnchanged(i)
            /\ next_id' = next_id
            /\ store_tasks'[i].id = store_tasks[i].id
            /\ store_tasks'[i].status = store_tasks[i].status
            /\ store_tasks'[i].title =
                    IF "title" \in DOMAIN fields THEN strip(fields.title)
                    ELSE store_tasks[i].title
            /\ store_tasks'[i].description =
                    IF "description" \in DOMAIN fields
                    THEN fields.description
                    ELSE store_tasks[i].description
            /\ store_tasks'[i].updated_at = now ]_vars

\* update_task has returned from a call that passed a title only, for a
\* completed task with a description, updated at an earlier time, in a
\* store that holds another task.
C22_Witness ==
    /\ lastOp.op = "update_task"
    /\ ~ lastOp.raised
    /\ DOMAIN lastOp.args.fields = { "title" }
    /\ Len(store_tasks) = 2
    /\ LET i == IndexOfTask(store_tasks, lastOp.args.task_id)
       IN  /\ i # 0
           /\ store_tasks[i].title = << "b" >>
           /\ store_tasks[i].description = "d"
           /\ store_tasks[i].status
           /\ store_tasks[i].updated_at = now
           /\ \E j \in 1..Len(store_tasks) : store_tasks[j].updated_at < now

\* The toggle made in this step follows a toggle of the same id, with no
\* other TaskStore call in between.
SecondToggle ==
    /\ CallReturned("toggle_task_status")
    /\ lastOp.op = "toggle_task_status"
    /\ ~ lastOp.raised
    /\ lastOp.args.task_id = lastOp'.args.task_id

\* C23: a task is created incomplete; toggle_task_status negates the status
\* of the task addressed and leaves its title, its description and every
\* other task as they were; a second toggle of the same id right after the
\* first gives the task the status, title and description it had before
\* the first.
C23_ToggleFlipsStatusOnly ==
    [][ /\ CallReturned("create_task") =>
            /\ store_tasks'[Len(store_tasks')].status = FALSE
            /\ lastOp'.ret.status = FALSE
        /\ CallReturned("toggle_task_status") =>
            LET i == IndexOfTask(store_tasks, lastOp'.args.task_id)
            IN  /\ i # 0
                /\ OthersUnchanged(i)
                /\ store_tasks'[i].status = ~ store_tasks[i].status
                /\ store_tasks'[i].id = store_tasks[i].id
                /\ store_tasks'[i].title = store_tasks[i].title
                /\ store_tasks'[i].description = store_tasks[i].description
        /\ SecondToggle =>
            LET i == IndexOfTask(store_tasks', lastOp'.args.task_id)
            IN  Content(store_tasks'[i]) = lastOp.found ]_vars

\* A task with a description, which an earlier toggle had completed, has
\* been toggled again and is incomplete as it was created, in a store with
\* another, completed task.
C23_Witness ==
    /\ lastOp.op = "toggle_task_status"
    /\ ~ lastOp.raised
    /\ lastOp.found.status
    /\ ~ lastOp.ret.status
    /\ lastOp.found.description = "d"
    /\ Len(store_tasks) = 2
    /\ \E j \in 1..Len(store_tasks) :
            /\ store_tasks[j].id # lastOp.args.task_id
            /\ store_tasks[j].status

\* The ids of a list of tasks grow with the position.
StrictlyIncreasing(ids) ==
    \A k, l \in 1..Len(ids) : k < l => ids[k] < ids[l]

\* C27: after any sequence of TaskStore calls the ids in the store are
\* pairwise distinct, every id in the store was given out by create_task,
\* the ids were given out in strictly increasing order (so that no id is
\* given out twice, whether or not its task was deleted meanwhile), and the
\* next-id counter is greater than every id ever given out.
C27_IdsNeverReused ==
    /\ \A k, l \in 1..Len(store_tasks) :
            k # l => store_tasks[k].id # store_tasks[l].id
    /\ \A k \in 1..Len(store_tasks) :
            \E l \in 1..Len(assignedIds) : assignedIds[l] = store_tasks[k].id
    /\ StrictlyIncreasing(assignedIds)
    /\ StrictlyIncreasing([k \in 1..Len(store_tasks) |-> store_tasks[k].id])
    /\ \A l \in 1..Len(assignedIds) : assignedIds[l] < next_id

\* create_task has returned the second task of a store whose first task
\* was deleted before the call.
C27_Witness ==
    /\ lastOp.op = "create_task"
    /\ ~ lastOp.raised
    /\ Len(assignedIds) = 2
    /\ Len(store_tasks) = 1
    /\ lastOp.ret.id = 2
    /\ store_tasks[1].id = 2

-----------------------------------------------------------------------------
(* Properties of verify_token within the task routes *)

\* A block of verify_token ran in this step.
VerifyStep ==
    /\ pc \in { "jwks", "hs256", "session" }
    /\ pc' # pc

\* C25: a step of verify_token leaves the session table, the task tables
\* and the configuration as they were, whether the call goes on, returns
\* the claims or raises; besides the record of the call itself it changes
\* nothing but the key cache; and a call reads the session table at most
\* once, in its session block.
C25_VerifyTokenWritesNothing ==
    [][ /\ VerifyStep =>
            /\ sessions' = sessions
            /\ tasks' = tasks
            /\ tasks3' = tasks3
            /\ << JWT_SECRET, tzOffset >>' = << JWT_SECRET, tzOffset >>
            /\ << remoteKeys, reachable, dbUp, now >>'
                    = << remoteKeys, reachable, dbUp, now >>
            /\ << req, resp, storeLog, store_tasks >>'
                    = << req, resp, storeLog, store_tasks >>
            /\ lookups' # lookups => pc = "session"
        /\ Len(lookups') <= 1 ]_vars

\* A call that the session block authenticated, after a key fetch filled
\* the cache, is over, with tasks in the table.
C25_Witness ==
    /\ pc = "done"
    /\ result.kind = "claims"
    /\ result.by = "session"
    /\ Len(lookups) = 1
    /\ jwkCache # NoCache
    /\ tasks # {}

\* A call that every block rejected is over, with tasks in the table.
C25_WitnessRejected ==
    /\ pc = "done"
    /\ result = InvalidToken
    /\ Len(lookups) = 1
    /\ tasks # {}

-----------------------------------------------------------------------------
(* Two calls of verify_token, one after the other, compared *)

\* What is kept of a call when the next begins: its credential, what it
\* went through and what the process and its surroundings were.
Remembered ==
    [kind |-> "call", token |-> token, attempted |-> attempted,
     verdicts |-> verdicts, log |-> log, result |-> result,
     reachable |-> reachable, dbUp |-> dbUp, at |-> now]

\* The call has returned to get_current_user (auth.py:132); it is kept for
\* comparison with the next.
Remember ==
    /\ pc = "done"
    /\ prev' = Remembered
    /\ pc' = "idle"
    /\ token' = NoToken
    /\ attempted' = << >>
    /\ verdicts' = << >>
    /\ fetches' = << >>
    /\ lookups' = << >>
    /\ log' = << >>
    /\ result' = NoResult
    /\ UNCHANGED jwkCache
    /\ UNCHANGED envVars
    /\ UNCHANGED << req, resp, tasks, storeLog >>
    /\ UNCHANGED << DATABASE_READY, chat, tasks3, nextId, lastCall >>
    /\ UNCHANGED lateVars

\* The credentials compared: signed tokens that are good, tampered and
\* expired; session values that are live, expired and unknown, bare and
\* with a signature part appended.
PairTokens ==
    { Jwt([alg |-> "EdDSA", kid |-> "k1"], BaseClaims(Far), "k1"),
      Jwt([alg |-> "EdDSA", kid |-> "k1"], BaseClaims(Far), "bad"),
      Jwt([alg |-> "EdDSA", kid |-> "k1"], BaseClaims(Start - Leeway - 1), "k1"),
      << Raw("v1") >>, << Raw("v1"), Raw("x") >>, << Raw("v1"), Raw("y") >>,
      << Raw("v1"), Raw("") >>,
      << Raw("v2") >>, << Raw("v2"), Raw("x") >>,
      << Raw("v9") >>, << Raw("v9"), Raw("x") >>, << Raw("v9"), Raw("y") >> }

TickQuiet == Quiet /\ Tick

NextPair ==
    \/ \E tok \in PairTokens : Request(tok)
    \/ JwksBlock
    \/ SecretBlock
    \/ SessionLookup
    \/ Remember
    \/ TickQuiet
    \/ CacheLapseQuiet
    \/ EndpointFlipQuiet
    \/ StoreFlipQuiet

SpecPair == InitRoutes /\ [][NextPair]_vars

\* The levels of the logging module that verify_token logs at, in
\* increasing severity (auth.py:56, 59, 108).
LogLevels == << "INFO", "WARNING", "ERROR" >>

Severity(level) == CHOOSE i \in 1..Len(LogLevels) : LogLevels[i] = level

\* What a block raises when the key-set endpoint or the session store
\* cannot be reached.
InfrastructureFailures == { "PyJWKClientConnectionError", "OperationalError" }

\* What a block raises for a bad signature, an expired token and an expired
\* session (auth.py:97-100).
ExpectedRejections ==
    { "InvalidSignatureError", "ExpiredSignatureError", "HTTPException" }

\* The blocks of verify_token.
Blocks == { "jwks", "hs256", "session" }

\* How the block ended in the call, "" when it was not entered.
VerdictAt(call, block) ==
    IF \E i \in 1..Len(call.attempted) : call.attempted[i] = block
    THEN call.verdicts[CHOOSE i \in 1..Len(call.attempted) :
                            call.attempted[i] = block]
    ELSE ""

\* The levels the call logged at for the block.
LevelsAt(call, block) ==
    { call.log[i].level : i \in { j \in 1..Len(call.log) : call.log[j].at = block } }

\* What the call went on to after the block: the block entered next, or
\* the rejection it ended with.
ContinuationAfter(call, block) ==
    LET i == CHOOSE j \in 1..Len(call.attempted) : call.attempted[j] = block
    IN  IF i < Len(call.attempted) THEN call.attempted[i + 1]
        ELSE IF call.result.kind = "http" THEN "rejected"
        ELSE "other"

\* Two calls have been made, one after the other.
TwoCalls == pc = "done" /\ prev.kind = "call"

\* C26: when a block fails in one call because the endpoint or the store
\* is unreachable and in another call because of a bad signature, an
\* expired token or an expired session, both calls go on in the same way,
\* and the first logs the failure at a higher level than the second.
C26_InfrastructureLoggedHigher ==
    TwoCalls =>
        \A block \in Blocks :
            \A p \in { << prev, Remembered >>, << Remembered, prev >> } :
                ( /\ VerdictAt(p[1], block) \in InfrastructureFailures
                  /\ VerdictAt(p[2], block) \in ExpectedRejections )
                => /\ ContinuationAfter(p[1], block)
                        = ContinuationAfter(p[2], block)
                   /\ \A hi \in LevelsAt(p[1], block) :
                        \A lo \in LevelsAt(p[2], block) :
                            Severity(hi) > Severity(lo)

\* What the handlers do: the two calls go on in the same way and log at the
\* same level, whatever the cause.
C26_SameLevelWhateverTheCause ==
    TwoCalls =>
        \A block \in Blocks :
            ( /\ VerdictAt(prev, block) \in InfrastructureFailures
              /\ VerdictAt(Remembered, block) \in ExpectedRejections )
            => /\ ContinuationAfter(prev, block)
                    = ContinuationAfter(Remembered, block)
               /\ LevelsAt(prev, block) = LevelsAt(Remembered, block)
               /\ Cardinality(LevelsAt(prev, block)) = 1

\* The two calls were made with the same value, bare or followed by a
\* signature part, the endpoint, the store and the clock being the same.
SameValueTwice ==
    /\ TwoCalls
    /\ Len(token) \in { 1, 2 }
    /\ Len(prev.token) \in { 1, 2 }
    /\ token[1] = prev.token[1]
    /\ prev.reachable = reachable
    /\ prev.dbUp = dbUp
    /\ prev.at = now

\* C28: whatever follows the dot of a two-part credential, the call ends
\* as it does for any other signature part and for the bare value: the
\* same claims returned or the same rejection raised, after the same
\* blocks with the same verdicts.
C28_SignaturePartNeverChecked ==
    SameValueTwice =>
        /\ result = prev.result
        /\ attempted = prev.attempted
        /\ verdicts = prev.verdicts
        /\ lookups = << << token[1] >> >>

\* The value of a live session, presented with one signature part and
\* then with another, was accepted both times.
C28_Witness ==
    /\ SameValueTwice
    /\ Len(token) = 2
    /\ Len(prev.token) = 2
    /\ token[2] # prev.token[2]
    /\ result.kind = "claims"
    /\ result.by = "session"
    /\ prev.result = result

\* The bare value of an unknown session and the value with a signature
\* part were both rejected.
C28_WitnessRejected ==
    /\ SameValueTwice
    /\ Len(token) # Len(prev.token)
    /\ result = InvalidToken
    /\ prev.result = InvalidToken

-----------------------------------------------------------------------------
(* Order of authentication, ownership test and task-table access *)

\* The responses that refuse a request.
Refusals == { HTTP_401_UNAUTHORIZED, HTTP_403_FORBIDDEN }

\* verify_token returned claims whose sub is the user_id of the path.
OwnerVerified ==
    /\ req # NoReq
    /\ Authenticated
    /\ Subject(result.claims) = req.user_id

\* C30: on the six task routes a function of crud.py is called, and the
\* task table is changed, only in the step that runs the body of a route
\* for a request whose credential verify_token accepted with a sub equal
\* to the user_id of the path; the step that builds a 401 or a 403 calls
\* none and leaves the table as it was.
C30_NoTaskAccessBeforeOwnerVerified ==
    [][ /\ storeLog' # storeLog /\ storeLog' # << >> =>
            /\ pc = "done"
            /\ OwnerVerified
        /\ tasks' # tasks =>
            /\ pc = "done"
            /\ OwnerVerified
            /\ storeLog' # << >>
        /\ resp' # resp /\ resp'.status \in Refusals =>
            /\ storeLog = << >>
            /\ storeLog' = << >>
            /\ tasks' = tasks ]_vars

\* A request to delete an existing task of the path's user, made with a
\* credential that verify_token rejected, has been answered 401.
C30_Witness ==
    /\ pc = "sent"
    /\ req.op = "delete_user_task"
    /\ req.credentials # NoCredentials
    /\ ~ Authenticated
    /\ resp.status = HTTP_401_UNAUTHORIZED
    /\ storeLog = << >>
    /\ \E r \in tasks : r.id = req.task_id /\ r.owner_id = req.user_id

\* A request to toggle an existing task of another user, made by an
\* authenticated caller, has been answered 403.
C30_WitnessForbidden ==
    /\ pc = "sent"
    /\ req.op = "toggle_task_completion"
    /\ Authenticated
    /\ resp.status = HTTP_403_FORBIDDEN
    /\ storeLog = << >>
    /\ \E r \in tasks : r.id = req.task_id /\ r.owner_id = req.user_id

-----------------------------------------------------------------------------
(* Toggle requests served side by side (todos.py:136-175, crud.py:56-78), *)
(* each in a transaction of its own at REPEATABLE READ (database.py:35)    *)

\* The owner whose requests these are; they passed get_current_user and
\* the ownership test of todos.py:146-151.
Owner == "u1"

\* What a toggle request leaves unchanged.
ToggleFrame ==
    /\ UNCHANGED << prev, req, resp, storeLog, other >>
    /\ UNCHANGED << DATABASE_READY, chat, tasks3, nextId, lastCall >>
    /\ UNCHANGED phase1Vars
    /\ UNCHANGED callVars
    /\ UNCHANGED jwkCache
    /\ UNCHANGED envVars

\* No request is being served.
AllIdle == \A w \in Workers : inflight[w].pc = "idle"

\* An earlier create_user_task of the owner (todos.py:35-53) has left a
\* task in the table.
SeedTask ==
    /\ tasks = {}
    /\ AllIdle
    /\ tasks' = crud_create_task(tasks, "t1", TaskCreate("a"), Owner).table
    /\ UNCHANGED << inflight, origin >>
    /\ ToggleFrame

\* PATCH /api/{user_id}/tasks/{task_id}/complete arrives from the owner.
ToggleArrives(w, task_id) ==
    /\ tasks # {}
    /\ inflight[w].pc = "idle"
    /\ inflight' = [inflight EXCEPT ![w] =
                        [IdleRequest EXCEPT !.pc = "get", !.task_id = task_id]]
    /\ origin' = IF AllIdle THEN tasks ELSE origin
    /\ UNCHANGED tasks
    /\ ToggleFrame

\* todos.py:154-159: the first select of the transaction, which fixes the
\* snapshot the transaction reads from; 404 when the task is not there.
ToggleGet(w) ==
    /\ inflight[w].pc = "get"
    /\ LET current_task == crud_get_task_by_id(tasks, inflight[w].task_id, Owner)
       IN  inflight' = [inflight EXCEPT ![w] =
                IF current_task = {}
                THEN [@ EXCEPT !.pc = "done", !.status = HTTP_404_NOT_FOUND]
                ELSE [@ EXCEPT !.pc = "update", !.current = current_task]]
    /\ UNCHANGED << tasks, origin >>
    /\ ToggleFrame

\* Another transaction has updated the row and not yet committed: the
\* UPDATE waits for it.
RowLocked(w) ==
    \E v \in Workers \ { w } :
        /\ inflight[v].pc = "commit"
        /\ inflight[v].task_id = inflight[w].task_id

\* crud.py:65-71: update_task reads the task again (from the snapshot),
\* sets completed, and commit() flushes the UPDATE. A row that another
\* transaction changed and committed since the snapshot makes the UPDATE
\* fail (could not serialize access due to concurrent update); update_task
\* rolls back and re-raises (crud.py:75-78) and the request is answered 500.
ToggleUpdate(w) ==
    /\ inflight[w].pc = "update"
    /\ ~ RowLocked(w)
    /\ inflight' = [inflight EXCEPT ![w] =
            IF inflight[w].conflict
            THEN [@ EXCEPT !.pc = "done", !.status = 500]
            ELSE [@ EXCEPT !.pc = "commit"]]
    /\ UNCHANGED << tasks, origin >>
    /\ ToggleFrame

\* crud.py:71-74 and todos.py:175: the COMMIT; the row now differs from
\* what the transactions that read it earlier have in their snapshots.
ToggleCommit(w) ==
    /\ inflight[w].pc = "commit"
    /\ LET row == CHOOSE r \in inflight[w].current : TRUE
           u == crud_update_task(tasks, inflight[w].task_id,
                                 [completed |-> ~ row.completed], Owner)
       IN  /\ tasks' = u.table
           /\ inflight' = [v \in Workers |->
                IF v = w
                THEN [inflight[v] EXCEPT !.pc = "done", !.status = 200,
                                         !.current = u.task]
                ELSE IF /\ inflight[v].pc = "update"
                        /\ inflight[v].task_id = inflight[w].task_id
                THEN [inflight[v] EXCEPT !.conflict = TRUE]
                ELSE inflight[v]]
    /\ UNCHANGED origin
    /\ ToggleFrame

\* The responses have gone out.
ToggleDelivered ==
    /\ \A w \in Workers : inflight[w].pc \in { "idle", "done" }
    /\ ~ AllIdle
    /\ inflight' = [w \in Workers |-> IdleRequest]
    /\ origin' = {}
    /\ UNCHANGED tasks
    /\ ToggleFrame

NextToggle ==
    \/ SeedTask
    \/ \E w \in Workers : \E t \in TaskIds : ToggleArrives(w, t)
    \/ \E w \in Workers : ToggleGet(w)
    \/ \E w \in Workers : ToggleUpdate(w)
    \/ \E w \in Workers : ToggleCommit(w)
    \/ ToggleDelivered

SpecToggle == InitRoutes /\ [][NextToggle]_vars

\* The completed value of task t1 in a table.
CompletedIn(tbl) == (CHOOSE r \in tbl : r.id = "t1").completed

\* Both requests were for the task and both have been answered.
BothToggled ==
    \A w \in Workers :
        /\ inflight[w].pc = "done"
        /\ inflight[w].task_id = "t1"

\* C29: when two toggle requests of the owner for the same task have both
\* been served, however their steps interleaved, the task's completed
\* value is what two toggles one after the other make it: the value it had
\* when the first request arrived.
C29_NoToggleLost ==
    BothToggled => CompletedIn(tasks) = CompletedIn(origin)

\* What the isolation level gives instead: no toggle is lost silently. If
\* both requests were answered 200 the value is the original one; else one
\* was answered 200, the other 500, and the value is the negation.
C29_OneToggleFailsInstead ==
    BothToggled =>
        LET ok == { w \in Workers : inflight[w].status = 200 }
        IN  /\ ok # {}
            /\ \A w \in Workers \ ok : inflight[w].status = 500
            /\ ok = Workers <=> CompletedIn(tasks) = CompletedIn(origin)

-----------------------------------------------------------------------------
(* Two verify_token calls in flight at once, sharing jwks_client          *)
(* (auth.py:32). A call runs from one await to the next without giving up *)
(* the event loop; its blocks are taken as the steps, which allows every  *)
(* order in which the two calls can reach the key cache.                  *)

\* What the JWKS block does for a token from a given cache (auth.py:43-59):
\* the error it ends with ("" if none) and the cache it leaves.
JwksOutcome(tok, cache) ==
    LET g == GetSigningKeyFromJwt(tok, cache, reachable, remoteKeys)
    IN  [err |-> IF g.err # "" THEN g.err
                 ELSE JwtDecode(tok, g.key, JwksAlgorithms, now, Leeway,
                                API_AUDIENCE, BETTER_AUTH_URL),
         cache |-> g.cache]

\* What the HS256 block does for a token (auth.py:61-74); "skipped" when
\* no secret is configured.
SecretOutcome(tok) ==
    IF JWT_SECRET # ""
    THEN JwtDecode(tok, JWT_SECRET, SecretAlgorithms, now, DefaultLeeway,
                   API_AUDIENCE, BETTER_AUTH_URL)
    ELSE "skipped"

\* What the session block and the lines after it do for a token
\* (auth.py:76-115).
SessionOutcome(tok) ==
    LET b == SessionBlock(tok, sessions, dbUp, now, tzOffset)
    IN  IF b.ret # {} THEN Returned(CHOOSE c \in b.ret : TRUE, "session")
        ELSE InvalidToken

\* What verify_token returns or raises for a token when it runs by itself
\* from a given cache (auth.py:34-115).
VerifyAlone(tok, cache) ==
    IF JwksOutcome(tok, cache).err = "" THEN Returned(tok[2].c, "jwks")
    ELSE IF SecretOutcome(tok) = "" THEN Returned(tok[2].c, "hs256")
    ELSE SessionOutcome(tok)

\* What the calls in flight leave unchanged besides their own state.
ConcFrame ==
    /\ UNCHANGED << prev, req, resp, tasks, storeLog >>
    /\ UNCHANGED << DATABASE_READY, chat, tasks3, nextId, lastCall >>
    /\ UNCHANGED << phase1Vars, inflight, origin >>
    /\ UNCHANGED envVars

\* get_current_user hands the credential of another request to
\* verify_token (auth.py:132).
OtherArrives(tok) ==
    /\ other.pc = "idle"
    /\ other' = [other EXCEPT !.pc = "jwks", !.token = tok]
    /\ UNCHANGED jwkCache
    /\ UNCHANGED callVars
    /\ ConcFrame

\* auth.py:43-59, for the other call; it is remembered whether the block
\* changed the key cache while the first call was waiting for its turn.
OtherJwksBlock ==
    /\ other.pc = "jwks"
    /\ LET o == JwksOutcome(other.token, jwkCache)
       IN  /\ jwkCache' = o.cache
           /\ other' = [other EXCEPT
                 !.pc = IF o.err = "" THEN "done" ELSE "hs256",
                 !.result = IF o.err = ""
                            THEN Returned(other.token[2].c, "jwks") ELSE @,
                 !.repopulated = @ \/ (pc = "jwks" /\ o.cache # jwkCache)]
    /\ UNCHANGED callVars
    /\ ConcFrame

\* auth.py:61-74, for the other call.
OtherSecretBlock ==
    /\ other.pc = "hs256"
    /\ other' = IF SecretOutcome(other.token) = ""
                THEN [other EXCEPT !.pc = "done",
                        !.result = Returned(other.token[2].c, "hs256")]
                ELSE [other EXCEPT !.pc = "session"]
    /\ UNCHANGED jwkCache
    /\ UNCHANGED callVars
    /\ ConcFrame

\* auth.py:76-115, for the other call.
OtherSessionLookup ==
    /\ other.pc = "session"
    /\ other' = [other EXCEPT !.pc = "done",
                               !.result = SessionOutcome(other.token)]
    /\ UNCHANGED jwkCache
    /\ UNCHANGED callVars
    /\ ConcFrame

\* The other call has returned to get_current_user.
OtherReturns ==
    /\ other.pc = "done"
    /\ other' = [IdleCall EXCEPT !.repopulated = other.repopulated]
    /\ UNCHANGED jwkCache
    /\ UNCHANGED callVars
    /\ ConcFrame

\* The first call has returned to get_current_user.
FirstReturns ==
    /\ pc = "done"
    /\ prev.kind = "first"
    /\ prev' = NoPrev
    /\ pc' = "idle"
    /\ token' = NoToken
    /\ attempted' = << >>
    /\ verdicts' = << >>
    /\ fetches' = << >>
    /\ lookups' = << >>
    /\ log' = << >>
    /\ result' = NoResult
    /\ other' = [other EXCEPT !.repopulated = FALSE]
    /\ UNCHANGED jwkCache
    /\ UNCHANGED envVars
    /\ UNCHANGED << req, resp, tasks, storeLog >>
    /\ UNCHANGED << DATABASE_READY, chat, tasks3, nextId, lastCall >>
    /\ UNCHANGED << phase1Vars, inflight, origin >>

\* The credentials in flight: signed tokens of the kids k1, k2 and of a
\* kid no key set has, a live session value and an unknown one.
ConcTokens ==
    { Jwt([alg |-> "EdDSA", kid |-> "k1"], BaseClaims(Far), "k1"),
      Jwt([alg |-> "RS256", kid |-> "k2"], BaseClaims(Far), "k2"),
      Jwt([alg |-> "EdDSA", kid |-> "k3"], BaseClaims(Far), "k1"),
      << Raw("v1") >>,
      << Raw("v9") >> }

\* No call is in flight: the key set, the endpoint and the cache change
\* only then.
Calm == pc = "idle" /\ other.pc = "idle"

RotateKeysCalm(ks) == Calm /\ RotateKeys(ks)

CacheLapseCalm == Calm /\ CacheLapse

EndpointFlipCalm == Calm /\ EndpointFlip

NextConc ==
    \/ \E tok \in ConcTokens : FirstCall(tok)
    \/ JwksBlock
    \/ SecretBlock
    \/ SessionLookup
    \/ FirstReturns
    \/ \E tok \in ConcTokens : OtherArrives(tok)
    \/ OtherJwksBlock
    \/ OtherSecretBlock
    \/ OtherSessionLookup
    \/ OtherReturns
    \/ \E ks \in KeySets : RotateKeysCalm(ks)
    \/ CacheLapseCalm
    \/ EndpointFlipCalm

SpecConc == InitRoutes /\ [][NextConc]_vars

\* The first call has returned or raised.
FirstDone == pc = "done" /\ prev.kind = "first"

\* The cache the first call found on arrival held no key but keys the
\* endpoint serves, and nothing while the endpoint is down.
CacheCurrent ==
    IF reachable THEN prev.cache.keys \subseteq remoteKeys
    ELSE prev.cache = NoCache

\* C24 as stated: the key set, the configuration and the session table
\* being fixed while the calls are in flight, a call ends as it would have
\* ended by itself from the cache it found on arrival, whatever the other
\* call did to the cache in between.
C24_AsStated ==
    FirstDone => result = VerifyAlone(token, prev.cache)

\* C24, amended: the same, for a cache that on arrival holds no key but
\* keys the endpoint serves (and none while the endpoint is down).
C24_IndependentWithCurrentCache ==
    ( FirstDone /\ CacheCurrent ) => result = VerifyAlone(token, prev.cache)

\* The claim as stated, for a cache that agrees with the key set whether
\* or not the endpoint is up. Not an invariant: while the endpoint is down
\* a call that misses the cache empties it (FetchData).
C24_AsStatedForAgreeingCache ==
    ( FirstDone /\ prev.cache.keys \subseteq remoteKeys )
        => result = VerifyAlone(token, prev.cache)

\* A token was accepted by the JWKS block after the other call, in flight
\* beside it, had missed the cache and fetched the key set anew.
C24_Witness ==
    /\ FirstDone
    /\ CacheCurrent
    /\ prev.cache.valid
    /\ other.repopulated
    /\ jwkCache # prev.cache
    /\ result.kind = "claims"
    /\ result.by = "jwks"

====
